---- MODULE Spec2Model ----
(***************************************************************************)
(* A model of the openbook CLI: the document segmenter                     *)
(* (src/commands/indexDocuments.ts), the chunk store (retrieval/store.ts   *)
(* and the search copy in src/commands/query.ts) and the indexing          *)
(* pipeline that joins them.                                               *)
(*                                                                         *)
(* Strings are sequences of one-character strings, so that .length is Len  *)
(* and slice/trim/split/match work on characters as they do in the code.   *)
(* Source indices are zero-based; sentences[i] of the code is              *)
(* sentences[i + 1] here.                                                  *)
(***************************************************************************)
EXTENDS Integers, Sequences, FiniteSets, TLC

\* ------------------------------------------------------------------------
\* Bounds of the model
\* ------------------------------------------------------------------------
MaxLen == 5
MaxChunkSize == 4
MaxOverlap == 3
MaxPre == 2
MaxK == 2
MaxAppends == 1
MaxRuns == 2

\* ------------------------------------------------------------------------
\* Characters and string helpers
\* ------------------------------------------------------------------------
SP == " "
NL == "\n"
TAB == "\t"
CR == "\r"
DOT == "."

\* What \s and String.prototype.trim treat as white space.
IsSpace(c) == c \in {SP, NL, TAB, CR}

\* The class [.!?] of the sentence pattern.
IsTerminal(c) == c \in {".", "!", "?"}

Min(a, b) == IF a < b THEN a ELSE b

Max(a, b) == IF a > b THEN a ELSE b

\* s.slice(from, to) with zero-based, end-exclusive indices 0 <= from.
Slice(s, from, to) == SubSeq(s, from + 1, Min(to, Len(s)))

RECURSIVE TrimEnd(_)
TrimEnd(s) ==
    IF s = <<>> THEN <<>>
    ELSE IF IsSpace(s[Len(s)]) THEN TrimEnd(SubSeq(s, 1, Len(s) - 1))
    ELSE s

RECURSIVE TrimStart(_)
TrimStart(s) ==
    IF s = <<>> THEN <<>>
    ELSE IF IsSpace(s[1]) THEN TrimStart(Tail(s))
    ELSE s

Trim(s) == TrimStart(TrimEnd(s))

\* parts.join(sep)
RECURSIVE Join(_, _)
Join(parts, sep) ==
    IF parts = <<>> THEN <<>>
    ELSE IF Len(parts) = 1 THEN parts[1]
    ELSE parts[1] \o sep \o Join(Tail(parts), sep)

\* s.split(c) for a single character c: always at least one part.
RECURSIVE SplitChar(_, _, _)
SplitChar(s, c, cur) ==
    IF s = <<>> THEN <<cur>>
    ELSE IF s[1] = c THEN <<cur>> \o SplitChar(Tail(s), c, <<>>)
    ELSE SplitChar(Tail(s), c, Append(cur, s[1]))

\* Length of the run of characters satisfying the class, starting at the
\* one-based position p.
RECURSIVE RunOfSpace(_, _)
RunOfSpace(s, p) ==
    IF p > Len(s) \/ ~IsSpace(s[p]) THEN 0 ELSE 1 + RunOfSpace(s, p + 1)

RECURSIVE RunOfTerminal(_, _)
RunOfTerminal(s, p) ==
    IF p > Len(s) \/ ~IsTerminal(s[p]) THEN 0 ELSE 1 + RunOfTerminal(s, p + 1)

RECURSIVE RunOfNonTerminal(_, _)
RunOfNonTerminal(s, p) ==
    IF p > Len(s) \/ IsTerminal(s[p]) THEN 0 ELSE 1 + RunOfNonTerminal(s, p + 1)

RECURSIVE RunOfNewline(_, _)
RunOfNewline(s, p) ==
    IF p > Len(s) \/ s[p] # NL THEN 0 ELSE 1 + RunOfNewline(s, p + 1)

\* ------------------------------------------------------------------------
\* normalizeWhitespace
\* ------------------------------------------------------------------------
\* .replace(/\r\n/g, "\n")
RECURSIVE ReplaceCRLF(_)
ReplaceCRLF(s) ==
    IF s = <<>> THEN <<>>
    ELSE IF Len(s) >= 2 /\ s[1] = CR /\ s[2] = NL
         THEN <<NL>> \o ReplaceCRLF(SubSeq(s, 3, Len(s)))
    ELSE <<s[1]>> \o ReplaceCRLF(Tail(s))

\* .replace(/\t/g, " ")
ReplaceTabs(s) == [i \in 1..Len(s) |-> IF s[i] = TAB THEN SP ELSE s[i]]

\* .split("\n").map((line) => line.trimEnd()).join("\n")
TrimLineEnds(s) ==
    LET lines == SplitChar(s, NL, <<>>)
    IN  Join([i \in 1..Len(lines) |-> TrimEnd(lines[i])], <<NL>>)

\* .replace(/\n{3,}/g, "\n\n")
RECURSIVE CollapseNewlines(_, _)
CollapseNewlines(s, p) ==
    IF p > Len(s) THEN <<>>
    ELSE LET n == RunOfNewline(s, p)
         IN  IF n >= 3 THEN <<NL, NL>> \o CollapseNewlines(s, p + n)
             ELSE <<s[p]>> \o CollapseNewlines(s, p + 1)

normalizeWhitespace(value) ==
    Trim(CollapseNewlines(TrimLineEnds(ReplaceTabs(ReplaceCRLF(value))), 1))

\* ------------------------------------------------------------------------
\* segmentText
\* ------------------------------------------------------------------------
\* content.split(/\n{2,}/): a run of two or more newlines is one separator.
RECURSIVE SplitParagraphs(_, _, _)
SplitParagraphs(s, p, cur) ==
    IF p > Len(s) THEN <<cur>>
    ELSE LET n == RunOfNewline(s, p)
         IN  IF n >= 2 THEN <<cur>> \o SplitParagraphs(s, p + n, <<>>)
             ELSE SplitParagraphs(s, p + 1, Append(cur, s[p]))

\* One attempt of /[^.!?]+[.!?]*(?:\s+|$)/ at the one-based position p.
\* The backtracking matcher tries the longest [^.!?]+ first, then the
\* longest [.!?]*, and accepts when white space or the end of input follows.
\* The result is the position after the match, or 0 when there is none.
SentenceTries(s, p) ==
    { t \in (1..RunOfNonTerminal(s, p)) \X (0..Len(s)) :
        /\ t[2] <= RunOfTerminal(s, p + t[1])
        /\ LET e == p + t[1] + t[2]
           IN  e > Len(s) \/ IsSpace(s[e]) }

SentenceMatchEnd(s, p) ==
    LET tries == SentenceTries(s, p)
    IN  IF tries = {} THEN 0
        ELSE LET n == CHOOSE x \in {t[1] : t \in tries} :
                          \A y \in {t[1] : t \in tries} : y <= x
                 m == CHOOSE x \in {t[2] : t \in {u \in tries : u[1] = n}} :
                          \A y \in {t[2] : t \in {u \in tries : u[1] = n}} : y <= x
                 e == p + n + m
             IN  e + RunOfSpace(s, e)

\* trimmed.match(/.../g): every match, scanning on from the end of the
\* previous one and stepping one character over a position with no match.
RECURSIVE SentenceMatches(_, _)
SentenceMatches(s, p) ==
    IF p > Len(s) THEN <<>>
    ELSE LET e == SentenceMatchEnd(s, p)
         IN  IF e = 0 THEN SentenceMatches(s, p + 1)
             ELSE <<SubSeq(s, p, e - 1)>> \o SentenceMatches(s, e)

\* The sentences one paragraph contributes.
ParagraphSentences(paragraph) ==
    LET trimmed == Trim(paragraph)
        matches == SentenceMatches(trimmed, 1)
        kept == SelectSeq([i \in 1..Len(matches) |-> Trim(matches[i])],
                          LAMBDA x : x # <<>>)
    IN  IF trimmed = <<>> THEN <<>>
        ELSE IF matches = <<>> THEN <<trimmed>>
        ELSE kept

RECURSIVE FlattenSeq(_)
FlattenSeq(ss) ==
    IF ss = <<>> THEN <<>> ELSE ss[1] \o FlattenSeq(Tail(ss))

segmentText(content) ==
    LET paragraphs == SplitParagraphs(content, 1, <<>>)
    IN  FlattenSeq([i \in 1..Len(paragraphs) |-> ParagraphSentences(paragraphs[i])])

\* ------------------------------------------------------------------------
\* splitLongSegment
\* ------------------------------------------------------------------------
\* The window that starts at `start`: its end and the start of the next one.
WindowEnd(text, start, size) == Min(start + size, Len(text))

\* A next window that starts one character after the end of this one.
NextWindowStartGap(text, start, size, ovl) == WindowEnd(text, start, size) + 1

NextWindowStart(text, start, size, ovl) ==
    Max(WindowEnd(text, start, size) - ovl, start + 1)

RECURSIVE SplitWindows(_, _, _, _)
SplitWindows(text, start, size, ovl) ==
    IF ~(start < Len(text)) THEN <<>>
    ELSE LET end == WindowEnd(text, start, size)
             piece == Trim(Slice(text, start, end))
         IN  IF end >= Len(text) THEN <<piece>>
             ELSE <<piece>> \o SplitWindows(text, NextWindowStart(text, start, size, ovl), size, ovl)

NonEmpty(pieces) == SelectSeq(pieces, LAMBDA x : Len(x) > 0)

splitLongSegment(text, size, ovl) == NonEmpty(SplitWindows(text, 0, size, ovl))

\* ------------------------------------------------------------------------
\* chunkContent
\* ------------------------------------------------------------------------
\* The inner while loop: packs sentences from endIndex on.  `long` is set
\* when the loop left through the force-split branch; endIndex then is the
\* index of the long sentence.
\* PackFrom that forgets the joining space when it adds a unit.
RECURSIVE PackFromNoSeparator(_, _, _, _)
PackFromNoSeparator(sents, endIndex, currentLength, size) ==
    IF ~(endIndex < Len(sents))
    THEN [endIndex |-> endIndex, currentLength |-> currentLength, long |-> FALSE]
    ELSE LET sentenceLength == Len(sents[endIndex + 1])
             nextLength == currentLength + sentenceLength
         IN  IF currentLength > 0 /\ nextLength > size
             THEN [endIndex |-> endIndex, currentLength |-> currentLength, long |-> FALSE]
             ELSE IF currentLength = 0 /\ sentenceLength > size
             THEN [endIndex |-> endIndex, currentLength |-> 0, long |-> TRUE]
             ELSE PackFromNoSeparator(sents, endIndex + 1, nextLength, size)

RECURSIVE PackFrom(_, _, _, _)
PackFrom(sents, endIndex, currentLength, size) ==
    IF ~(endIndex < Len(sents))
    THEN [endIndex |-> endIndex, currentLength |-> currentLength, long |-> FALSE]
    ELSE LET sentenceLength == Len(sents[endIndex + 1])
             nextLength == IF currentLength = 0 THEN sentenceLength
                           ELSE currentLength + 1 + sentenceLength
         IN  IF currentLength > 0 /\ nextLength > size
             THEN [endIndex |-> endIndex, currentLength |-> currentLength, long |-> FALSE]
             ELSE IF currentLength = 0 /\ sentenceLength > size
             THEN [endIndex |-> endIndex, currentLength |-> 0, long |-> TRUE]
             ELSE PackFrom(sents, endIndex + 1, nextLength, size)

\* The backward walk that picks the units shared with the next chunk.
RECURSIVE WalkBack(_, _, _, _, _)
WalkBack(sents, from, newStart, overlapLength, ovl) ==
    IF newStart > from /\ overlapLength + Len(sents[newStart]) <= ovl
    THEN WalkBack(sents, from, newStart - 1, overlapLength + Len(sents[newStart]), ovl)
    ELSE newStart

\* NextStart without the forced advance to endIndex.
NextStartUnforced(sents, from, endIndex, ovl) ==
    WalkBack(sents, from, endIndex, 0, ovl)

NextStart(sents, from, endIndex, ovl) ==
    LET newStart == WalkBack(sents, from, endIndex, 0, ovl)
    IN  IF newStart <= from THEN endIndex ELSE newStart

\* sentences.slice(startIndex, endIndex).join(" ").trim()
ChunkText(sents, from, endIndex) ==
    Trim(Join(SubSeq(sents, from + 1, endIndex), <<SP>>))

RECURSIVE PackLoop(_, _, _, _, _)
PackLoop(sents, from, size, ovl, out) ==
    IF ~(from < Len(sents)) THEN out
    ELSE LET r == PackFrom(sents, from, 0, size)
             text == ChunkText(sents, from, r.endIndex)
             out2 == IF text # <<>> THEN Append(out, text) ELSE out
         IN  IF r.long
             THEN PackLoop(sents, r.endIndex + 1, size, ovl,
                           out \o splitLongSegment(sents[r.endIndex + 1], size, ovl))
             ELSE IF r.currentLength = 0
             THEN PackLoop(sents, from, size, ovl, out)
             ELSE IF r.endIndex >= Len(sents) THEN out2
             ELSE PackLoop(sents, NextStart(sents, from, r.endIndex, ovl), size, ovl, out2)

chunkContent(rawContent, size, ovl) ==
    LET content == normalizeWhitespace(rawContent)
    IN  IF content = <<>> THEN <<>>
        ELSE PackLoop(segmentText(content), 0, size, ovl, <<>>)

\* ------------------------------------------------------------------------
\* Numbers of the store: embeddings, IEEE doubles and cosineSimilarity
\* ------------------------------------------------------------------------
\* Vector components are integers.  Huge stands for a finite double whose
\* square is beyond the largest double (such as 1e200): a product or a sum
\* that reaches Huge * Huge overflows to Infinity, as it does in the code.
Huge == 1000

Fin(n) == [k |-> "fin", v |-> n]

Inf(sign) == [k |-> "inf", v |-> sign]

NaN == [k |-> "nan", v |-> 0]

\* The double an exact integer result is stored as.
ToDouble(n) ==
    IF n >= Huge * Huge THEN Inf(1)
    ELSE IF n <= -(Huge * Huge) THEN Inf(-1)
    ELSE Fin(n)

\* x + y on doubles.
DAdd(x, y) ==
    IF x.k = "nan" \/ y.k = "nan" THEN NaN
    ELSE IF x.k = "inf" /\ y.k = "inf" THEN (IF x.v = y.v THEN x ELSE NaN)
    ELSE IF x.k = "inf" THEN x
    ELSE IF y.k = "inf" THEN y
    ELSE ToDouble(x.v + y.v)

\* The three accumulators of cosineSimilarity's loop after i components.
RECURSIVE DotUpTo(_, _, _)
DotUpTo(a, b, i) ==
    IF i = 0 THEN Fin(0) ELSE DAdd(DotUpTo(a, b, i - 1), ToDouble(a[i] * b[i]))

\* A similarity: d / sqrt(m) when k = "fin" (m >= 1), else NaN or +-Infinity.
\* Finite similarities are kept exact, without the rounding of a double.
FinScore(d, m) == [k |-> "fin", d |-> d, m |-> m]

NanScore == [k |-> "nan", d |-> 0, m |-> 1]

InfScore(sign) == [k |-> "inf", d |-> sign, m |-> 1]

\* dot / (Math.sqrt(magA) * Math.sqrt(magB)) for magA, magB # 0.
Quotient(dot, magA, magB) ==
    LET denomInf == magA.k = "inf" \/ magB.k = "inf"
    IN  IF dot.k = "nan" THEN NanScore
        ELSE IF dot.k = "inf" THEN (IF denomInf THEN NanScore ELSE InfScore(dot.v))
        ELSE IF denomInf THEN FinScore(0, 1)
        ELSE FinScore(dot.v, magA.v * magB.v)

\* cosineSimilarity without the test for a zero magnitude: 0 / 0 is NaN.
cosineSimilarityUnguarded(a, b) ==
    IF Len(a) = 0 \/ Len(a) # Len(b) THEN FinScore(0, 1)
    ELSE LET dot == DotUpTo(a, b, Len(a))
             magA == DotUpTo(a, a, Len(a))
             magB == DotUpTo(b, b, Len(b))
         IN  IF magA = Fin(0) \/ magB = Fin(0) THEN NanScore
             ELSE Quotient(dot, magA, magB)

cosineSimilarity(a, b) ==
    IF Len(a) = 0 \/ Len(a) # Len(b) THEN FinScore(0, 1)
    ELSE LET dot == DotUpTo(a, b, Len(a))
             magA == DotUpTo(a, a, Len(a))
             magB == DotUpTo(b, b, Len(b))
         IN  IF magA = Fin(0) \/ magB = Fin(0) THEN FinScore(0, 1)
             ELSE Quotient(dot, magA, magB)

\* Number.isFinite(score)
IsFinite(score) == score.k = "fin"

\* x < y for finite similarities: t -> sign(t) * t * t is increasing.
SignedSquare(d) == IF d < 0 THEN -(d * d) ELSE d * d

ScoreLess(x, y) == SignedSquare(x.d) * y.m < SignedSquare(y.d) * x.m

\* ------------------------------------------------------------------------
\* The persisted log: lines, JSON, searchChunks and loadTopChunks
\* ------------------------------------------------------------------------
\* The file is a sequence of tokens: a line feed, or the text of one line.
\* A line text is what JSON.stringify wrote for a record (kind "object"),
\* or something else that is in the file: text that is not JSON
\* ("garbage"), the JSON literal null ("null"), or a JSON object that has
\* no embedding array ("novector").
LF == [kind |-> "lf", id |-> <<>>, filePath |-> <<>>, content |-> <<>>,
       embedding |-> <<>>, chunkSize |-> 0]

Garbage == [kind |-> "garbage", id |-> <<>>, filePath |-> <<>>, content |-> <<>>,
            embedding |-> <<>>, chunkSize |-> 0]

NullLine == [kind |-> "null", id |-> <<>>, filePath |-> <<>>, content |-> <<>>,
             embedding |-> <<>>, chunkSize |-> 0]

NoVectorLine == [kind |-> "novector", id |-> <<>>, filePath |-> <<>>, content |-> <<>>,
                 embedding |-> <<>>, chunkSize |-> 0]

\* JSON.stringify({ id, filePath, content, metadata, embedding, chunkSize })
Stringify(chunk, embedding, size) ==
    [kind |-> "object", id |-> chunk.id, filePath |-> chunk.filePath,
     content |-> chunk.content, embedding |-> embedding, chunkSize |-> size]

\* lines.join("\n") + "\n"
RECURSIVE JoinLines(_)
JoinLines(lines) ==
    IF lines = <<>> THEN <<>>
    ELSE IF Len(lines) = 1 THEN <<lines[1]>>
    ELSE <<lines[1], LF>> \o JoinLines(Tail(lines))

Payload(lines) == JoinLines(lines) \o <<LF>>

NoFile == [exists |-> FALSE, data |-> <<>>]

\* fs.writeFile in the place of fs.appendFile.
OverwriteFile(file, payload) == [exists |-> TRUE, data |-> payload]

\* fs.appendFile: creates the file when it is absent.
AppendFile(file, payload) == [exists |-> TRUE, data |-> file.data \o payload]

\* raw.trim(): line feeds at both ends go.
RECURSIVE TrimFile(_)
TrimFile(data) ==
    IF data = <<>> THEN <<>>
    ELSE IF data[1].kind = "lf" THEN TrimFile(Tail(data))
    ELSE IF data[Len(data)].kind = "lf" THEN TrimFile(SubSeq(data, 1, Len(data) - 1))
    ELSE data

\* raw.split(/\n+/): the token groups between runs of line feeds.  Two line
\* texts with no line feed between them are one line.
RECURSIVE SplitLines(_, _)
SplitLines(data, cur) ==
    IF data = <<>> THEN <<cur>>
    ELSE IF data[1].kind = "lf"
         THEN (IF Len(data) >= 2 /\ data[2].kind = "lf"
               THEN SplitLines(Tail(data), cur)
               ELSE <<cur>> \o SplitLines(Tail(data), <<>>))
    ELSE SplitLines(Tail(data), Append(cur, data[1]))

\* JSON.parse(line): throws unless the line is one JSON text.
ParseThrows(line) == Len(line) # 1 \/ line[1].kind = "garbage"

\* parsed && Array.isArray(parsed.embedding)
HasVector(line) == ~ParseThrows(line) /\ line[1].kind = "object"

\* The loop without the try/catch: the first line JSON.parse rejects ends
\* the search with its exception.
ReadChunksUncaught(lines) ==
    [threw |-> \E i \in 1..Len(lines) : ParseThrows(lines[i]),
     parsed |-> SelectSeq(lines, LAMBDA line : ~ParseThrows(line))]

\* The loop over the lines with the try/catch around JSON.parse: a line that
\* throws is skipped, the others go on to the test of their fields.
ReadChunks(lines) ==
    [threw |-> FALSE,
     parsed |-> SelectSeq(lines, LAMBDA line : ~ParseThrows(line))]

\* The chunk object a line parses to.
Parsed(line) ==
    [id |-> line[1].id, filePath |-> line[1].filePath, content |-> line[1].content,
     embedding |-> line[1].embedding, chunkSize |-> line[1].chunkSize]

\* array.slice(0, k + 1)
TakeOneMore(seq, k) == SubSeq(seq, 1, Min(k + 1, Len(seq)))

\* array.slice(0, k)
Take(seq, k) ==
    IF k >= 0 THEN SubSeq(seq, 1, Min(k, Len(seq)))
    ELSE SubSeq(seq, 1, Len(seq) + k)

\* One step of a stable sort with the comparator (a, b) => a.score - b.score.
RECURSIVE InsertByScoreAscending(_, _)
InsertByScoreAscending(sorted, entry) ==
    IF sorted = <<>> THEN <<entry>>
    ELSE IF ScoreLess(entry.score, sorted[1].score) THEN <<entry>> \o sorted
    ELSE <<sorted[1]>> \o InsertByScoreAscending(Tail(sorted), entry)

\* One step of a stable sort with the comparator (a, b) => b.score - a.score:
\* the entry goes before the first one with a strictly smaller score.
RECURSIVE InsertByScore(_, _)
InsertByScore(sorted, entry) ==
    IF sorted = <<>> THEN <<entry>>
    ELSE IF ScoreLess(sorted[1].score, entry.score) THEN <<entry>> \o sorted
    ELSE <<sorted[1]>> \o InsertByScore(Tail(sorted), entry)

\* A sort that takes the entries from the front and inserts each one after
\* the rest: entries of equal score come out in reverse order.
RECURSIVE SortByScoreFromFront(_)
SortByScoreFromFront(entries) ==
    IF entries = <<>> THEN <<>>
    ELSE InsertByScore(SortByScoreFromFront(Tail(entries)), Head(entries))

\* Array.prototype.sort is stable: entries of equal score keep their order.
RECURSIVE SortByScore(_)
SortByScore(entries) ==
    IF entries = <<>> THEN <<>>
    ELSE InsertByScore(SortByScore(SubSeq(entries, 1, Len(entries) - 1)),
                       entries[Len(entries)])

\* .map(score).filter(isFinite).slice(0, k).map(chunk): the sort left out.
RankedUnsorted(parsedChunks, queryEmbedding, k) ==
    LET scored == [i \in 1..Len(parsedChunks) |->
                     [chunk |-> parsedChunks[i],
                      score |-> cosineSimilarity(queryEmbedding, parsedChunks[i].embedding)]]
        finite == SelectSeq(scored, LAMBDA e : IsFinite(e.score))
        top == Take(finite, k)
    IN  [i \in 1..Len(top) |-> top[i].chunk]

\* .map(score).filter(isFinite).sort(desc).slice(0, k).map(chunk)
Ranked(parsedChunks, queryEmbedding, k) ==
    LET scored == [i \in 1..Len(parsedChunks) |->
                     [chunk |-> parsedChunks[i],
                      score |-> cosineSimilarity(queryEmbedding, parsedChunks[i].embedding)]]
        finite == SelectSeq(scored, LAMBDA e : IsFinite(e.score))
        top == Take(SortByScore(finite), k)
    IN  [i \in 1..Len(top) |-> top[i].chunk]

\* The value a search leaves: it returns a list or it throws.
Returned(list) == [threw |-> FALSE, result |-> list]

Thrown == [threw |-> TRUE, result |-> <<>>]

\* searchChunks that returns ranked as it is, empty or not.
searchChunksNoFallback(file, queryEmbedding, k) ==
    IF ~file.exists THEN Returned(<<>>)
    ELSE IF TrimFile(file.data) = <<>> THEN Returned(<<>>)
    ELSE LET read == ReadChunks(SplitLines(TrimFile(file.data), <<>>))
             kept == SelectSeq(read.parsed, HasVector)
             parsedChunks == [i \in 1..Len(kept) |-> Parsed(kept[i])]
         IN  IF read.threw THEN Thrown
             ELSE Returned(Ranked(parsedChunks, queryEmbedding, k))

\* retrieval/store.ts
searchChunks(file, queryEmbedding, k) ==
    IF ~file.exists THEN Returned(<<>>)
    ELSE IF TrimFile(file.data) = <<>> THEN Returned(<<>>)
    ELSE LET read == ReadChunks(SplitLines(TrimFile(file.data), <<>>))
             kept == SelectSeq(read.parsed, HasVector)
             parsedChunks == [i \in 1..Len(kept) |-> Parsed(kept[i])]
             ranked == Ranked(parsedChunks, queryEmbedding, k)
         IN  IF read.threw THEN Thrown
             ELSE IF Len(ranked) > 0 THEN Returned(ranked)
             ELSE Returned(Take(parsedChunks, k))

\* commands/query.ts: parsed && parsed.content && parsed.filePath &&
\* Array.isArray(parsed.embedding)
HasAllFields(line) ==
    HasVector(line) /\ line[1].content # <<>> /\ line[1].filePath # <<>>

\* The chunk object loadTopChunks builds: id, filePath, content, embedding.
Picked(line) ==
    [id |-> line[1].id, filePath |-> line[1].filePath, content |-> line[1].content,
     embedding |-> line[1].embedding]

loadTopChunks(file, queryEmbedding, k) ==
    IF ~file.exists THEN Returned(<<>>)
    ELSE LET read == ReadChunks(SplitLines(TrimFile(file.data), <<>>))
             kept == SelectSeq(read.parsed, HasAllFields)
             parsedChunks == [i \in 1..Len(kept) |-> Picked(kept[i])]
             ranked == Ranked(parsedChunks, queryEmbedding, k)
         IN  IF read.threw THEN Thrown
             ELSE IF Len(ranked) = 0 THEN Returned(Take(parsedChunks, k))
             ELSE Returned(ranked)

\* ------------------------------------------------------------------------
\* indexDocuments: the source directory, gatherFiles, chunkFiles
\* ------------------------------------------------------------------------
\* A directory entry: a name (as characters), a type, the text of a file and
\* the entries of a sub-directory.
FileEntry(name, content) ==
    [name |-> name, type |-> "file", content |-> content, children |-> <<>>]

DirEntry(name, children) ==
    [name |-> name, type |-> "dir", content |-> <<>>, children |-> children]

\* value.toLowerCase() over the letters the model uses.
LowerChar(c) == IF c = "M" THEN "m" ELSE IF c = "D" THEN "d" ELSE c

ToLower(str) == [i \in 1..Len(str) |-> LowerChar(str[i])]

\* path.extname(name): from the last "." on, unless that is the first
\* character or there is none.
RECURSIVE LastDot(_, _)
LastDot(name, i) ==
    IF i = 0 THEN 0 ELSE IF name[i] = DOT THEN i ELSE LastDot(name, i - 1)

ExtName(name) ==
    LET d == LastDot(name, Len(name))
    IN  IF d <= 1 THEN <<>> ELSE SubSeq(name, d, Len(name))

\* path.join(directory, entry.name)
PathJoin(directory, name) == directory \o <<"/">> \o name

\* The files one entry contributes right away (a plain file that passes the
\* filters) and the ones it contributes once its recursive call has
\* resolved (the files of a sub-directory).
PassesFilter(entry, allowed) ==
    \/ Len(allowed) = 0
    \/ \E i \in 1..Len(allowed) : ToLower(allowed[i]) = ToLower(ExtName(entry.name))

RECURSIVE GatherPlain(_, _, _)
GatherPlain(directory, entries, allowed) ==
    IF entries = <<>> THEN <<>>
    ELSE LET entry == entries[1]
             rest == GatherPlain(directory, Tail(entries), allowed)
         IN  IF entry.name[1] = DOT THEN rest
             ELSE IF entry.type = "dir" THEN rest
             ELSE IF entry.type # "file" THEN rest
             ELSE IF ~PassesFilter(entry, allowed) THEN rest
             ELSE <<[path |-> PathJoin(directory, entry.name), content |-> entry.content]>> \o rest

RECURSIVE GatherNested(_, _, _)
GatherNested(directory, entries, allowed) ==
    IF entries = <<>> THEN <<>>
    ELSE LET entry == entries[1]
             rest == GatherNested(directory, Tail(entries), allowed)
         IN  IF entry.name[1] # DOT /\ entry.type = "dir"
             THEN GatherPlain(PathJoin(directory, entry.name), entry.children, allowed) \o rest
             ELSE rest

\* gatherFiles joined with readFiles: path and content of every eligible
\* file.  The plain files of the directory are pushed while the entries are
\* mapped, the files of a sub-directory when its own listing has resolved.
gatherFiles(directory, entries, recursive, allowed) ==
    GatherPlain(directory, entries, allowed)
        \o (IF recursive THEN GatherNested(directory, entries, allowed) ELSE <<>>)

\* The readdir calls gatherFiles makes.
RECURSIVE SubDirs(_)
SubDirs(entries) ==
    IF entries = <<>> THEN 0
    ELSE (IF entries[1].name[1] # DOT /\ entries[1].type = "dir" THEN 1 ELSE 0)
         + SubDirs(Tail(entries))

\* chunkFiles that hands on a file without chunks as one empty chunk.
chunkFilesWithEmpty(files, size, ovl) ==
    FlattenSeq([f \in 1..Len(files) |->
        LET chunkList == chunkContent(files[f].content, size, ovl)
        IN  IF chunkList = <<>>
            THEN <<[id |-> <<files[f].path, 0>>, filePath |-> files[f].path,
                    content |-> <<>>]>>
            ELSE [i \in 1..Len(chunkList) |->
                    [id |-> <<files[f].path, i - 1>>, filePath |-> files[f].path,
                     content |-> chunkList[i]]]])

\* chunkFiles: id `${file.path}:${index}` is the pair <<path, index>>.
RECURSIVE chunkFiles(_, _, _)
chunkFiles(files, size, ovl) ==
    IF files = <<>> THEN <<>>
    ELSE LET chunkList == chunkContent(files[1].content, size, ovl)
         IN  [i \in 1..Len(chunkList) |->
                [id |-> <<files[1].path, i - 1>>, filePath |-> files[1].path,
                 content |-> chunkList[i]]]
             \o chunkFiles(Tail(files), size, ovl)

\* indexDocuments from its call to the first embedding request: what it
\* threw if it threw, the file-system calls it made on the source directory,
\* and the chunks it hands to persistChunks.
IndexOutcome(error, reads, chunkRecords) ==
    [error |-> error, srcReads |-> reads, chunks |-> chunkRecords]

\* indexDocuments that looks at the source directory before it checks its
\* options.
indexDocumentsLateValidation(opts, dir) ==
    IF dir.kind = "missing" THEN IndexOutcome("io", 1, <<>>)
    ELSE IF dir.kind # "dir" THEN IndexOutcome("notdirectory", 1, <<>>)
    ELSE IF opts.chunkSize <= 0 THEN IndexOutcome("validation", 1, <<>>)
    ELSE IF opts.overlap < 0 THEN IndexOutcome("validation", 1, <<>>)
    ELSE LET files == gatherFiles(dir.path, dir.entries, opts.recursive, opts.allowed)
             listings == 2 + (IF opts.recursive THEN SubDirs(dir.entries) ELSE 0)
         IN  IF Len(files) = 0 THEN IndexOutcome("none", listings, <<>>)
             ELSE IndexOutcome("none", listings + Len(files),
                               chunkFiles(files, opts.chunkSize, opts.overlap))

indexDocuments(opts, dir) ==
    IF opts.chunkSize <= 0 THEN IndexOutcome("validation", 0, <<>>)
    ELSE IF opts.overlap < 0 THEN IndexOutcome("validation", 0, <<>>)
    ELSE IF dir.kind = "missing" THEN IndexOutcome("io", 1, <<>>)
    ELSE IF dir.kind # "dir" THEN IndexOutcome("notdirectory", 1, <<>>)
    ELSE LET files == gatherFiles(dir.path, dir.entries, opts.recursive, opts.allowed)
             listings == 2 + (IF opts.recursive THEN SubDirs(dir.entries) ELSE 0)
         IN  IF Len(files) = 0 THEN IndexOutcome("none", listings, <<>>)
             ELSE IndexOutcome("none", listings + Len(files),
                               chunkFiles(files, opts.chunkSize, opts.overlap))

\* ------------------------------------------------------------------------
\* Configuration, providers, the prompt and the outcomes of a query's calls
\* ------------------------------------------------------------------------
\* models/provider.ts: PROVIDERS, with each provider's needsApiKey flag, its
\* model list and its default model.
PROVIDERS ==
    [ollama |-> [needsApiKey |-> FALSE, models |-> {},
                 defaultModel |-> "qwen3:1.7b"],
     openai |-> [needsApiKey |-> TRUE,
                 models |-> {"gpt-5", "gpt-4.1", "gpt-4.1-mini", "gpt-4o", "gpt-4o-mini"},
                 defaultModel |-> "gpt-5"],
     anthropic |-> [needsApiKey |-> TRUE,
                    models |-> {"claude-opus-4", "claude-sonnet-4", "claude-haiku-4.5",
                                "claude-3-5-sonnet-20241022"},
                    defaultModel |-> "claude-opus-4"],
     google |-> [needsApiKey |-> TRUE,
                 models |-> {"gemini-2.5-pro", "gemini-2.5-flash", "gemini-2.0-flash-exp",
                             "gemini-1.5-pro"},
                 defaultModel |-> "gemini-2.5-pro"]]

needsApiKey(provider) == PROVIDERS[provider].needsApiKey

isValidProvider(name) == name \in DOMAIN PROVIDERS

\* config.ts: DEFAULT_CONFIG.  apiKeys and customModels are maps with an
\* entry for the providers that have one.
DEFAULT_CONFIG ==
    [modelProvider |-> "ollama", model |-> PROVIDERS["ollama"].defaultModel,
     apiKeys |-> <<>>, customModels |-> <<>>, webSearchEnabled |-> FALSE,
     chunksPerQuery |-> 5, webSearchProvider |-> "bing", ragEnabled |-> TRUE]

NoConfigFile == [exists |-> FALSE, config |-> DEFAULT_CONFIG]

\* normalizeModel as the older config.ts has it: no custom models.
normalizeModelListedOnly(config) ==
    IF config.model \notin PROVIDERS[config.modelProvider].models
    THEN [config EXCEPT !.model = PROVIDERS[config.modelProvider].defaultModel]
    ELSE config

\* normalizeModel: the custom model recorded for the provider, else the
\* model when the provider lists it, else the provider's default.  (The
\* provider of a configuration is always a key of PROVIDERS here: loadConfig
\* and the model-provider command both test it.)
normalizeModel(config) ==
    IF /\ config.modelProvider \in DOMAIN config.customModels
       /\ config.customModels[config.modelProvider] # ""
    THEN [config EXCEPT !.model = config.customModels[config.modelProvider]]
    ELSE IF config.model \notin PROVIDERS[config.modelProvider].models
    THEN [config EXCEPT !.model = PROVIDERS[config.modelProvider].defaultModel]
    ELSE config

\* mergeCustomModels: an entry of the patch with an empty value deletes the
\* provider's entry, any other value replaces it.
mergeCustomModels(base, patch) ==
    [p \in (DOMAIN base \ {q \in DOMAIN patch : patch[q] = ""})
           \cup {q \in DOMAIN patch : patch[q] # ""} |->
        IF p \in DOMAIN patch THEN patch[p] ELSE base[p]]

\* loadConfig: the defaults when there is no file, else the file's fields,
\* normalized.
loadConfig(file) == IF file.exists THEN normalizeModel(file.config) ELSE DEFAULT_CONFIG

\* saveConfig: ensureConfigDir, then writeFileSync.
saveConfig(config) == [exists |-> TRUE, config |-> config]

\* applyConfigUpdate: { ...base, ...partial } with apiKeys merged entry by
\* entry when the patch has apiKeys and customModels merged by
\* mergeCustomModels when it has customModels; then normalizeModel.
applyConfigUpdate(base, partial) ==
    normalizeModel(
        [f \in DOMAIN base |->
            IF f = "apiKeys"
            THEN (IF "apiKeys" \in DOMAIN partial
                  THEN [p \in DOMAIN base.apiKeys \cup DOMAIN partial.apiKeys |->
                          IF p \in DOMAIN partial.apiKeys THEN partial.apiKeys[p]
                          ELSE base.apiKeys[p]]
                  ELSE base.apiKeys)
            ELSE IF f = "customModels"
            THEN (IF "customModels" \in DOMAIN partial
                  THEN mergeCustomModels(base.customModels, partial.customModels)
                  ELSE base.customModels)
            ELSE IF f \in DOMAIN partial THEN partial[f] ELSE base[f]])

\* index.ts ensureModelForProvider: the model the model-provider command
\* passes along with the new provider.
ensureModelForProvider(provider, currentModel, customModels) ==
    IF provider \in DOMAIN customModels /\ customModels[provider] # ""
    THEN customModels[provider]
    ELSE IF provider = "ollama"
    THEN (IF currentModel # "" THEN currentModel ELSE PROVIDERS[provider].defaultModel)
    ELSE IF currentModel \in PROVIDERS[provider].models THEN currentModel
    ELSE PROVIDERS[provider].defaultModel

\* The model command's decision (index.ts): accepted when the provider lists
\* the model, when --custom is given, or when the provider is ollama; the
\* patch records the model as the provider's custom model, or clears that
\* entry when the model is a listed one set without --custom.
modelCommandListedOnly(provider, modelId, custom) ==
    LET listed == modelId \in PROVIDERS[provider].models
    IN  [accepted |-> listed \/ custom,
         patch |-> [model |-> modelId,
                    customModels |-> [p \in {provider} |->
                                        IF custom THEN modelId ELSE ""]]]

modelCommand(provider, modelId, custom) ==
    LET allowImplicitCustom == provider = "ollama"
        listed == modelId \in PROVIDERS[provider].models
        isCustom == custom \/ (~listed /\ allowImplicitCustom)
    IN  [accepted |-> listed \/ isCustom,
         patch |-> [model |-> modelId,
                    customModels |-> [p \in {provider} |->
                                        IF isCustom THEN modelId ELSE ""]]]

\* currentConfig.apiKeys?.[provider] is a non-empty string.
HasApiKey(config, provider) ==
    provider \in DOMAIN config.apiKeys /\ config.apiKeys[provider] # ""

\* A line on the console: the stream, the fixed text, and the provider and
\* HTTP status the message carries (if any).
Line(stream, text, provider, status) ==
    [stream |-> stream, text |-> text, provider |-> provider, status |-> status]

\* executeQuery without the test of the API key.
executeQueryGateNoKeyTest(config) ==
    IF ~isValidProvider(config.modelProvider) THEN "unknown" ELSE "run"

\* executeQuery before runQuery: an unknown provider and a missing API key
\* end the query at once.
executeQueryGate(config) ==
    IF ~isValidProvider(config.modelProvider) THEN "unknown"
    ELSE IF needsApiKey(config.modelProvider) /\ ~HasApiKey(config, config.modelProvider)
    THEN "nokey"
    ELSE "run"

\* clearStore with no test that the log is there: unlinkSync throws on an
\* absent file.
clearStoreUnguarded(dir, file, config) ==
    IF file.exists
    THEN [dir |-> dir /\ config.exists, file |-> NoFile, threw |-> FALSE]
    ELSE [dir |-> dir, file |-> file, threw |-> TRUE]

\* retrieval/store.ts clearStore (and the same steps in session/reset.ts):
\* the log goes if it is there, then the directory goes if it is there and
\* holds nothing.  The configuration file is the other entry the directory
\* can hold.
clearStore(dir, file, config) ==
    [dir |-> dir /\ config.exists, file |-> NoFile, threw |-> FALSE]

\* performWebSearch up to its fetch: an unsupported provider and a missing
\* key throw before any request is made.
performWebSearchStart(provider, hasKey) ==
    IF provider \notin {"bing", "serper"} THEN "unsupported"
    ELSE IF ~hasKey THEN "nokey"
    ELSE "fetch"

\* safeWebSearch without its catch block.
safeWebSearchUncaught(outcome, items) ==
    IF outcome = "ok" THEN [threw |-> FALSE, snippets |-> items, warned |-> FALSE]
    ELSE [threw |-> TRUE, snippets |-> <<>>, warned |-> FALSE]

\* safeWebSearch: what performWebSearch returned, or [] with a warning.
safeWebSearch(outcome, items) ==
    IF outcome = "ok" THEN [threw |-> FALSE, snippets |-> items, warned |-> FALSE]
    ELSE [threw |-> FALSE, snippets |-> <<>>, warned |-> TRUE]

\* dispatchToProvider up to the fetch of the provider's function.
dispatchToProvider(provider, hasKey) ==
    IF provider = "ollama" THEN "fetch"
    ELSE IF provider \in {"openai", "anthropic", "google"}
    THEN (IF hasKey THEN "fetch" ELSE "nokey")
    ELSE "unsupported"

\* The sections of a prompt; nothing is built before buildPrompt has run.  The section of the local chunks is the marker
\* "<none>" or one entry per chunk.
\* buildPrompt that joins an empty list of chunks.
buildPromptNoMarker(question, contexts, webSnippets, webSearchEnabled) ==
    [built |-> TRUE, question |-> question,
     local |-> "",
     chunks |-> [i \in 1..Len(contexts) |->
                   [index |-> i, filePath |-> contexts[i].filePath,
                    content |-> contexts[i].content]],
     web |-> IF Len(webSnippets) > 0 THEN ""
             ELSE IF webSearchEnabled THEN "<search enabled but no additional results>"
             ELSE "<web search disabled>",
     snippets |-> webSnippets]

buildPrompt(question, contexts, webSnippets, webSearchEnabled) ==
    [built |-> TRUE, question |-> question,
     local |-> IF Len(contexts) > 0 THEN "" ELSE "<none>",
     chunks |-> [i \in 1..Len(contexts) |->
                   [index |-> i, filePath |-> contexts[i].filePath,
                    content |-> contexts[i].content]],
     web |-> IF Len(webSnippets) > 0 THEN ""
             ELSE IF webSearchEnabled THEN "<search enabled but no additional results>"
             ELSE "<web search disabled>",
     snippets |-> webSnippets]

\* commands/query.ts buildPrompt: "\nContext: <none>" or the chunk texts.
buildPromptContext(contexts) ==
    [built |-> TRUE,
     local |-> IF Len(contexts) > 0 THEN "" ELSE "<none>",
     chunks |-> [i \in 1..Len(contexts) |->
                   [index |-> i, filePath |-> contexts[i].filePath,
                    content |-> contexts[i].content]]]

\* The try/catch of runQuery with the error thrown on.
runQueryTailUncaught(reply, provider, contexts, webSnippets) ==
    IF reply.kind = "ok"
    THEN [thrown |-> FALSE,
          lines |-> <<Line("stdout", "Answer:", provider, 0),
                      Line("stdout", "Context snippets:", provider, 0)>>
                    \o [i \in 1..Len(contexts) |-> Line("stdout", "[Chunk]", provider, 0)]
                    \o (IF Len(webSnippets) > 0
                        THEN <<Line("stdout", "Web sources:", provider, 0)>>
                             \o [i \in 1..Len(webSnippets) |-> Line("stdout", "[Web]", provider, 0)]
                        ELSE <<>>)]
    ELSE [thrown |-> TRUE, lines |-> <<>>]

\* The try/catch of runQuery around the dispatch: the answer and the
\* sources, or one "Query failed" line with the message of the error (which
\* has the status when the provider answered with one).
runQueryTail(reply, provider, contexts, webSnippets) ==
    IF reply.kind = "ok"
    THEN [thrown |-> FALSE,
          lines |-> <<Line("stdout", "Answer:", provider, 0),
                      Line("stdout", "Context snippets:", provider, 0)>>
                    \o [i \in 1..Len(contexts) |-> Line("stdout", "[Chunk]", provider, 0)]
                    \o (IF Len(webSnippets) > 0
                        THEN <<Line("stdout", "Web sources:", provider, 0)>>
                             \o [i \in 1..Len(webSnippets) |-> Line("stdout", "[Web]", provider, 0)]
                        ELSE <<>>)]
    ELSE [thrown |-> FALSE,
          lines |-> <<Line("stderr", "Query failed:", provider, reply.status)>>]

\* The calls a query has made so far, and its locals.
NoQuery ==
    [asked |-> FALSE, gate |-> "", question |-> <<>>, earlier |-> <<>>,
     queryEmbedding |-> <<>>, searchedWith |-> <<>>,
     contexts |-> <<>>,
     webSnippets |-> <<>>,
     prompt |-> [built |-> FALSE, question |-> <<>>, local |-> "", chunks |-> <<>>,
                 web |-> "", snippets |-> <<>>],
     calls |-> [embed |-> 0, search |-> 0, web |-> 0, webFetch |-> 0, prompt |-> 0,
                dispatch |-> 0, provider |-> 0],
     failure |-> "none", webFailure |-> "none", reply |-> "none", status |-> 0]

NoCommand ==
    [name |-> "none", target |-> "", hadKey |-> FALSE, dirBefore |-> FALSE,
     threw |-> FALSE]

\* ------------------------------------------------------------------------
\* The segmenter as a machine: one step per iteration of chunkContent's
\* outer loop and one per window of splitLongSegment
\* ------------------------------------------------------------------------
VARIABLES
    rawContent,     \* chunkContent's argument
    chunkSize,      \* config.chunkSize
    overlap,        \* config.overlap
    sentences,      \* the units segmentText produced
    startIndex,     \* packing start index of the outer loop
    chunks,         \* chunks emitted so far
    segPc,          \* "call" | "start" | "outer" | "split" | "done"
    longIndex,      \* index of the sentence being force-split
    start,          \* window start inside splitLongSegment
    longChunks,     \* windows pushed so far by splitLongSegment
    storeDir,       \* ~/.openbook exists
    storeFile,      \* ~/.openbook/chunks.jsonl: [exists, data]
    runPc,          \* "idle" | "embed" | "await" | "write" | "done" | "failed"
    writer,         \* the function that runs the embedding loop
    runOpts,        \* the options indexDocuments was called with
    pending,        \* the chunks argument of persistChunks / appendChunks
    runI,           \* the loop index i
    lines,          \* the lines array
    runError,       \* what the run threw, "none" when nothing
    inFlight,       \* embedding requests sent and not yet answered
    srcReads,       \* file-system calls of the run on the source directory
    embedCalls,     \* getEmbedding calls of the run
    storeWrites,    \* mkdir / appendFile calls of the run on the store
    history,        \* per completed write, the chunks given and the records written
    fileAtCall,     \* the log as it was when the run was called
    lastSearch,     \* the last search and what it returned
    initialFile,    \* the log as it was before the first run
    configFile,     \* ~/.openbook/config.json: [exists, config]
    cliPc,          \* "shell" | "prompt" | "embedding" | "web" | "provider"
    currentConfig,  \* currentConfig of the running chat process
    query,          \* the locals of the query being run, or of the last one
    printed,        \* what the running process has written to the console
    exitCode,       \* process.exitCode of the last process
    lastCommand     \* the last configuration or reset command, and its target

segVars == <<rawContent, chunkSize, overlap, sentences, startIndex, chunks,
             segPc, longIndex, start, longChunks>>

storeVars == <<storeDir, storeFile, lastSearch, initialFile>>

runVars == <<runPc, writer, runOpts, pending, runI, lines, runError, inFlight,
             srcReads, embedCalls, storeWrites, history, fileAtCall>>

cliVars == <<configFile, cliPc, currentConfig, query, printed, exitCode, lastCommand>>

vars == <<segVars, storeVars, runVars, cliVars>>

\* What a segmenter step leaves alone.
nonSegVars == <<storeVars, runVars, cliVars>>

\* ------------------------------------------------------------------------
\* Initial values of the three parts
\* ------------------------------------------------------------------------
NoSearch == [done |-> FALSE, fn |-> "", q |-> <<>>, k |-> 0, threw |-> FALSE,
             result |-> <<>>]

NoDir == [kind |-> "none", path |-> <<>>, entries |-> <<>>]

NoOpts == [chunkSize |-> 0, overlap |-> 0, recursive |-> FALSE, allowed |-> <<>>,
           dir |-> NoDir]

Alphabet == {"a", DOT, SP, NL}

\* Longer texts with three and more units, a unit longer than the chunk
\* size between short ones, and a long unit with inner white space.
Corpus ==
    { <<"a", SP, DOT, "a", SP, DOT, "a", "a">>,
      <<"a", SP, DOT, "a", SP, DOT, "a", SP, DOT, "a">>,
      <<"a", DOT, SP, "a", DOT, SP, "a">>,
      <<"a", SP, DOT, "a", SP, DOT, "a", "a", "a", "a", "a", SP, DOT, "a">>,
      <<"a", SP, "a", SP, "a", SP, "a", SP, "a">>,
      <<"a", NL, NL, "a", TAB, "a", CR, NL, NL, NL, "a", "a">> }

SegInit ==
    /\ rawContent = <<>>
    /\ chunkSize = 1
    /\ overlap = 0
    /\ sentences = <<>>
    /\ startIndex = 0
    /\ chunks = <<>>
    /\ segPc = "call"
    /\ longIndex = 0
    /\ start = 0
    /\ longChunks = <<>>
    \* no store on disk, no search made, no run started
    /\ storeDir = FALSE
    /\ storeFile = NoFile
    /\ lastSearch = NoSearch
    /\ initialFile = NoFile
    /\ runPc = "idle"
    /\ writer = "none"
    /\ runOpts = NoOpts
    /\ pending = <<>>
    /\ runI = 0
    /\ lines = <<>>
    /\ runError = "none"
    /\ inFlight = 0
    /\ srcReads = 0
    /\ embedCalls = 0
    /\ storeWrites = 0
    /\ history = <<>>
    /\ fileAtCall = NoFile
    \* no command has run, no chat is open
    /\ configFile = NoConfigFile
    /\ cliPc = "shell"
    /\ currentConfig = DEFAULT_CONFIG
    /\ query = NoQuery
    /\ printed = <<>>
    /\ exitCode = 0
    /\ lastCommand = NoCommand

\* The caller's text grows by one character, or is one of the longer texts.
SegInputChar ==
    /\ UNCHANGED nonSegVars
    /\ segPc = "call"
    /\ Len(rawContent) < MaxLen
    /\ \E c \in Alphabet : rawContent' = Append(rawContent, c)
    /\ UNCHANGED <<chunkSize, overlap, sentences, startIndex, chunks, segPc,
                   longIndex, start, longChunks>>

SegInputText ==
    /\ UNCHANGED nonSegVars
    /\ segPc = "call"
    /\ rawContent = <<>>
    /\ rawContent' \in Corpus
    /\ UNCHANGED <<chunkSize, overlap, sentences, startIndex, chunks, segPc,
                   longIndex, start, longChunks>>

\* chunkContent is called with the text and a configuration.
SegCall ==
    /\ UNCHANGED nonSegVars
    /\ segPc = "call"
    /\ chunkSize' \in 1..MaxChunkSize
    /\ overlap' \in 0..MaxOverlap
    /\ segPc' = "start"
    /\ UNCHANGED <<rawContent, sentences, startIndex, chunks, longIndex, start, longChunks>>

\* chunkContent up to the loop: normalize, return [] for empty content,
\* otherwise segment.
SegBegin ==
    /\ UNCHANGED nonSegVars
    /\ segPc = "start"
    /\ LET content == normalizeWhitespace(rawContent)
       IN  IF content = <<>>
           THEN /\ segPc' = "done"
                /\ sentences' = <<>>
           ELSE /\ segPc' = "outer"
                /\ sentences' = segmentText(content)
    /\ startIndex' = 0
    /\ chunks' = <<>>
    /\ UNCHANGED <<rawContent, chunkSize, overlap, longIndex, start, longChunks>>

\* The loop condition fails: return chunks.
SegLoopExit ==
    /\ UNCHANGED nonSegVars
    /\ segPc = "outer"
    /\ ~(startIndex < Len(sentences))
    /\ segPc' = "done"
    /\ UNCHANGED <<rawContent, chunkSize, overlap, sentences, startIndex, chunks,
                   longIndex, start, longChunks>>

\* An iteration that packs units into a chunk and steps back for overlap.
SegPack ==
    /\ UNCHANGED nonSegVars
    /\ segPc = "outer"
    /\ startIndex < Len(sentences)
    /\ LET r == PackFrom(sentences, startIndex, 0, chunkSize)
           text == ChunkText(sentences, startIndex, r.endIndex)
       IN  /\ ~r.long
           /\ IF r.currentLength = 0
              THEN UNCHANGED <<chunks, startIndex, segPc>>
              ELSE /\ chunks' = IF text # <<>> THEN Append(chunks, text) ELSE chunks
                   /\ IF r.endIndex >= Len(sentences)
                      THEN segPc' = "done" /\ UNCHANGED startIndex
                      ELSE /\ segPc' = "outer"
                           /\ startIndex' = NextStart(sentences, startIndex, r.endIndex, overlap)
    /\ UNCHANGED <<rawContent, chunkSize, overlap, sentences, longIndex, start, longChunks>>

\* An iteration whose first unit is longer than chunkSize: enter
\* splitLongSegment for it.
SegEnterSplit ==
    /\ UNCHANGED nonSegVars
    /\ segPc = "outer"
    /\ startIndex < Len(sentences)
    /\ LET r == PackFrom(sentences, startIndex, 0, chunkSize)
       IN  /\ r.long
           /\ longIndex' = r.endIndex
    /\ start' = 0
    /\ longChunks' = <<>>
    /\ segPc' = "split"
    /\ UNCHANGED <<rawContent, chunkSize, overlap, sentences, startIndex, chunks>>

\* One window of splitLongSegment that is not the last.
SegSplitWindow ==
    /\ UNCHANGED nonSegVars
    /\ segPc = "split"
    /\ LET text == sentences[longIndex + 1]
           end == WindowEnd(text, start, chunkSize)
       IN  /\ start < Len(text)
           /\ ~(end >= Len(text))
           /\ longChunks' = Append(longChunks, Trim(Slice(text, start, end)))
           /\ start' = NextWindowStart(text, start, chunkSize, overlap)
    /\ UNCHANGED <<rawContent, chunkSize, overlap, sentences, startIndex, chunks,
                   segPc, longIndex>>

\* The last window: splitLongSegment returns its non-empty windows, the
\* caller pushes them and moves the start index past the long unit.
SegSplitReturn ==
    /\ UNCHANGED nonSegVars
    /\ segPc = "split"
    /\ LET text == sentences[longIndex + 1]
           end == WindowEnd(text, start, chunkSize)
           all == IF start < Len(text)
                  THEN Append(longChunks, Trim(Slice(text, start, end)))
                  ELSE longChunks
       IN  /\ ~(start < Len(text)) \/ end >= Len(text)
           /\ chunks' = chunks \o NonEmpty(all)
           /\ longChunks' = all
    /\ startIndex' = longIndex + 1
    /\ segPc' = "outer"
    /\ UNCHANGED <<rawContent, chunkSize, overlap, sentences, longIndex, start>>

SegNext ==
    \/ SegInputChar
    \/ SegInputText
    \/ SegCall
    \/ SegBegin
    \/ SegLoopExit
    \/ SegPack
    \/ SegEnterSplit
    \/ SegSplitWindow
    \/ SegSplitReturn

SegSpec == SegInit /\ [][SegNext]_vars

SegAgrees == segPc = "done" => chunks = chunkContent(rawContent, chunkSize, overlap)

\* ------------------------------------------------------------------------
\* The embedding loop of persistChunks and appendChunks, and the searches
\* ------------------------------------------------------------------------
\* The vectors the store part works with: zero length, zero magnitude, two
\* of the same direction, one at an obtuse angle to them, and one whose
\* square overflows.
Vecs == { <<>>, <<0, 0>>, <<1, 0>>, <<2, 0>>, <<-1, 1>>, <<Huge, 0>> }

\* The vectors the embedding service answers with during indexing.
IndexVecs == { <<1, 0>>, <<0, 1>> }

\* The records of a file as a search reads them.
LogRecords(file) ==
    LET kept == SelectSeq(SplitLines(TrimFile(file.data), <<>>), HasVector)
    IN  [i \in 1..Len(kept) |-> Parsed(kept[i])]

\* getEmbedding called for chunks[i] and for every later chunk at once.
EmbedRequestAll(w) ==
    /\ runPc = "embed"
    /\ writer = w
    /\ runPc' = "await"
    /\ inFlight' = inFlight + (Len(pending) - runI)
    /\ embedCalls' = embedCalls + (Len(pending) - runI)
    /\ UNCHANGED <<writer, runOpts, pending, runI, lines, runError, srcReads,
                   storeWrites, history, fileAtCall>>
    /\ UNCHANGED <<segVars, cliVars, storeVars>>

\* getEmbedding is called for chunks[i].
EmbedRequest(w) ==
    /\ runPc = "embed"
    /\ writer = w
    /\ runPc' = "await"
    /\ inFlight' = inFlight + 1
    /\ embedCalls' = embedCalls + 1
    /\ UNCHANGED <<writer, runOpts, pending, runI, lines, runError, srcReads,
                   storeWrites, history, fileAtCall>>
    /\ UNCHANGED <<segVars, cliVars, storeVars>>

\* An answer whose line is appended to the log at once.
EmbedOkWritesThrough(w, vectors) ==
    /\ runPc = "await"
    /\ writer = w
    /\ \E embedding \in vectors :
         LET line == Stringify(pending[runI + 1], embedding, runOpts.chunkSize)
         IN  /\ lines' = Append(lines, line)
             /\ storeFile' = AppendFile(storeFile, Payload(<<line>>))
    /\ runI' = runI + 1
    /\ runPc' = IF runI + 1 < Len(pending) THEN "embed" ELSE "write"
    /\ inFlight' = inFlight - 1
    /\ UNCHANGED <<writer, runOpts, pending, runError, srcReads, embedCalls,
                   storeWrites, history, fileAtCall>>
    /\ UNCHANGED <<segVars, cliVars, storeDir, lastSearch, initialFile>>

\* The service answered with an embedding array: push the line, next i.
EmbedOk(w, vectors) ==
    /\ runPc = "await"
    /\ writer = w
    /\ \E embedding \in vectors :
         lines' = Append(lines, Stringify(pending[runI + 1], embedding, runOpts.chunkSize))
    /\ runI' = runI + 1
    /\ runPc' = IF runI + 1 < Len(pending) THEN "embed" ELSE "write"
    /\ inFlight' = inFlight - 1
    /\ UNCHANGED <<writer, runOpts, pending, runError, srcReads, embedCalls,
                   storeWrites, history, fileAtCall>>
    /\ UNCHANGED <<segVars, cliVars, storeVars>>

\* A failure of getEmbedding that rolls the log back to nothing.
EmbedFailRollsBack(w) ==
    /\ runPc = "await"
    /\ writer = w
    /\ runPc' = "failed"
    /\ runError' = "embedding"
    /\ inFlight' = inFlight - 1
    /\ storeFile' = NoFile
    /\ UNCHANGED <<writer, runOpts, pending, runI, lines, srcReads, embedCalls,
                   storeWrites, history, fileAtCall>>
    /\ UNCHANGED <<segVars, cliVars, storeDir, lastSearch, initialFile>>

\* getEmbedding threw (no connection, a non-ok status, or a body with no
\* embedding array): the exception leaves the loop and the function.
EmbedFail(w) ==
    /\ runPc = "await"
    /\ writer = w
    /\ runPc' = "failed"
    /\ runError' = "embedding"
    /\ inFlight' = inFlight - 1
    /\ UNCHANGED <<writer, runOpts, pending, runI, lines, srcReads, embedCalls,
                   storeWrites, history, fileAtCall>>
    /\ UNCHANGED <<segVars, cliVars, storeVars>>

\* fs.appendFile(file, lines.join("\n") + "\n")
WriteLines(w) ==
    /\ runPc = "write"
    /\ writer = w
    /\ storeFile' = AppendFile(storeFile, Payload(lines))
    /\ storeWrites' = storeWrites + 1
    /\ history' = Append(history, [chunks |-> pending,
                                    records |-> [i \in 1..Len(lines) |-> Parsed(<<lines[i]>>)]])
    /\ runPc' = "done"
    /\ lastSearch' = NoSearch
    /\ UNCHANGED <<writer, runOpts, pending, runI, lines, runError, inFlight,
                   srcReads, embedCalls, fileAtCall, storeDir, initialFile>>
    /\ UNCHANGED <<segVars, cliVars>>

\* The call has returned or thrown: its locals are gone and the next
\* command may start.
RunReturn(w) ==
    /\ runPc \in {"done", "failed"}
    /\ writer = w
    /\ runPc' = "idle"
    /\ writer' = "none"
    /\ runOpts' = NoOpts
    /\ pending' = <<>>
    /\ runI' = 0
    /\ lines' = <<>>
    /\ runError' = "none"
    /\ srcReads' = 0
    /\ embedCalls' = 0
    /\ storeWrites' = 0
    /\ fileAtCall' = NoFile
    /\ UNCHANGED <<inFlight, history>>
    /\ UNCHANGED <<segVars, cliVars, storeVars>>

\* --- retrieval/store.ts: appendChunks ---
NewChunk == [id |-> <<<<"n">>, 0>>, filePath |-> <<"n">>, content |-> <<"a">>]

AppendChunksCall ==
    /\ runPc = "idle"
    /\ Len(history) < MaxAppends
    /\ \E chs \in {<<>>, <<NewChunk>>} :
         /\ pending' = chs
         /\ IF chs = <<>>
            THEN /\ runPc' = "done"
                 /\ storeWrites' = 0
                 /\ UNCHANGED storeDir
            ELSE /\ runPc' = "embed"
                 /\ storeDir' = TRUE
                 /\ storeWrites' = 1
    /\ writer' = "appendChunks"
    /\ runOpts' = [NoOpts EXCEPT !.chunkSize = 1]
    /\ runI' = 0
    /\ lines' = <<>>
    /\ runError' = "none"
    /\ srcReads' = 0
    /\ embedCalls' = 0
    /\ fileAtCall' = storeFile
    /\ lastSearch' = NoSearch
    /\ UNCHANGED <<inFlight, history, storeFile, initialFile>>
    /\ UNCHANGED <<segVars, cliVars>>

AppendEmbedRequest == EmbedRequest("appendChunks")

AppendEmbedOk == EmbedOk("appendChunks", Vecs)

AppendEmbedFail == EmbedFail("appendChunks")

AppendWrite == WriteLines("appendChunks")

AppendReturn == RunReturn("appendChunks")

\* --- the two searches ---
SearchChunks ==
    /\ runPc = "idle"
    /\ ~lastSearch.done
    /\ \E q \in Vecs, k \in 0..MaxK :
         LET out == searchChunks(storeFile, q, k)
         IN  lastSearch' = [done |-> TRUE, fn |-> "searchChunks", q |-> q, k |-> k,
                            threw |-> out.threw, result |-> out.result]
    /\ UNCHANGED <<storeDir, storeFile, initialFile>>
    /\ UNCHANGED <<segVars, cliVars, runVars>>

LoadTopChunks ==
    /\ runPc = "idle"
    /\ ~lastSearch.done
    /\ \E q \in Vecs, k \in 0..MaxK :
         LET out == loadTopChunks(storeFile, q, k)
         IN  lastSearch' = [done |-> TRUE, fn |-> "loadTopChunks", q |-> q, k |-> k,
                            threw |-> out.threw, result |-> out.result]
    /\ UNCHANGED <<storeDir, storeFile, initialFile>>
    /\ UNCHANGED <<segVars, cliVars, runVars>>

\* The caller has used the list the search returned.
SearchReturn ==
    /\ lastSearch.done
    /\ lastSearch' = NoSearch
    /\ UNCHANGED <<storeDir, storeFile, initialFile>>
    /\ UNCHANGED <<segVars, cliVars, runVars>>

\* What may be on disk when the store part starts: no file, or up to MaxPre
\* lines, each a record with one of the vectors or a line a search has to
\* skip.
OldLine(embedding) ==
    [kind |-> "object", id |-> <<>>, filePath |-> <<"o">>, content |-> <<"a">>,
     embedding |-> embedding, chunkSize |-> 1]

\* A record that was stored with empty content.
NoContentLine(embedding) == [OldLine(embedding) EXCEPT !.content = <<>>]

LineChoices ==
    {Garbage, NullLine, NoVectorLine}
        \cup {OldLine(v) : v \in Vecs}
        \cup {NoContentLine(v) : v \in {<<1, 0>>, <<Huge, 0>>}}

\* The i-th line of an old log; a record's id names its position.
Positioned(line, i) ==
    IF line.kind = "object" THEN [line EXCEPT !.id = <<<<"o">>, i>>] ELSE line

OldLog(choice) ==
    [exists |-> TRUE,
     data |-> FlattenSeq([i \in 1..Len(choice) |-> <<Positioned(choice[i], i), LF>>])]

StoreInit ==
    /\ storeFile \in {NoFile} \cup
         UNION {{OldLog(c) : c \in [1..n -> LineChoices]} : n \in 0..MaxPre}
    /\ storeDir = storeFile.exists
    /\ lastSearch = NoSearch
    /\ initialFile = storeFile
    \* the segmenter is not in use, no run has been started
    /\ rawContent = <<>>
    /\ chunkSize = 1
    /\ overlap = 0
    /\ sentences = <<>>
    /\ startIndex = 0
    /\ chunks = <<>>
    /\ segPc = "off"
    /\ longIndex = 0
    /\ start = 0
    /\ longChunks = <<>>
    /\ runPc = "idle"
    /\ writer = "none"
    /\ runOpts = NoOpts
    /\ pending = <<>>
    /\ runI = 0
    /\ lines = <<>>
    /\ runError = "none"
    /\ inFlight = 0
    /\ srcReads = 0
    /\ embedCalls = 0
    /\ storeWrites = 0
    /\ history = <<>>
    /\ fileAtCall = NoFile
    \* no command has run, no chat is open
    /\ configFile = NoConfigFile
    /\ cliPc = "shell"
    /\ currentConfig = DEFAULT_CONFIG
    /\ query = NoQuery
    /\ printed = <<>>
    /\ exitCode = 0
    /\ lastCommand = NoCommand

StoreNext ==
    \/ AppendChunksCall
    \/ AppendEmbedRequest
    \/ AppendEmbedOk
    \/ AppendEmbedFail
    \/ AppendWrite
    \/ AppendReturn
    \/ SearchChunks
    \/ LoadTopChunks
    \/ SearchReturn

StoreSpec == StoreInit /\ [][StoreNext]_vars

\* ------------------------------------------------------------------------
\* The index command: indexDocuments and persistChunks
\* ------------------------------------------------------------------------
\* Source directories: one that does not exist, a path that is a file, an
\* empty directory, a directory whose only file is blank, and a directory
\* with a text file of two sentences, a hidden file, a sub-directory with
\* one file and a blank file with another extension.
Missing == [kind |-> "missing", path |-> <<"m">>, entries |-> <<>>]

NotDir == [kind |-> "file", path |-> <<"f">>, entries |-> <<>>]

EmptyDir == [kind |-> "dir", path |-> <<"e">>, entries |-> <<>>]

Blank ==
    [kind |-> "dir", path |-> <<"b">>,
     entries |-> <<FileEntry(<<"e", DOT, "t">>, <<SP, NL, TAB>>)>>]

Docs ==
    [kind |-> "dir", path |-> <<"d">>,
     entries |-> <<FileEntry(<<"a", DOT, "t">>, <<"a", DOT, SP, "a">>),
                   FileEntry(<<DOT, "e">>, <<"a">>),
                   DirEntry(<<"s">>, <<FileEntry(<<"B", DOT, "M", "D">>, <<"a", "a">>)>>),
                   FileEntry(<<"c", DOT, "b">>, <<SP, NL>>)>>]

Dirs == {Missing, NotDir, EmptyDir, Blank, Docs}

\* currentConfig.extensions: no filter, or .t and .md
Extensions == { <<>>, << <<DOT, "t">>, <<DOT, "m", "d">> >> }

IndexOptions ==
    [chunkSize : {-1, 0, 2}, overlap : {-1, 0, 1},
     recursive : BOOLEAN, allowed : Extensions, dir : Dirs]

\* indexDocuments is called; it runs to its first embedding request, to its
\* return (nothing to embed) or to the exception it throws.  persistChunks
\* creates the store directory before the loop.
IndexCall ==
    /\ runPc = "idle"
    /\ Len(history) < MaxRuns
    /\ \E opts \in IndexOptions :
         LET out == indexDocuments(opts, opts.dir)
         IN  /\ runOpts' = opts
             /\ srcReads' = out.srcReads
             /\ runError' = out.error
             /\ pending' = out.chunks
             /\ IF out.error # "none"
                THEN runPc' = "failed" /\ storeWrites' = 0 /\ UNCHANGED storeDir
                ELSE IF Len(out.chunks) = 0
                THEN runPc' = "done" /\ storeWrites' = 0 /\ UNCHANGED storeDir
                ELSE runPc' = "embed" /\ storeDir' = TRUE /\ storeWrites' = 1
    /\ writer' = "persistChunks"
    /\ runI' = 0
    /\ lines' = <<>>
    /\ embedCalls' = 0
    /\ fileAtCall' = storeFile
    /\ lastSearch' = NoSearch
    /\ UNCHANGED <<inFlight, history, storeFile, initialFile>>
    /\ UNCHANGED <<segVars, cliVars>>

PersistEmbedRequest == EmbedRequest("persistChunks")

PersistEmbedOk == EmbedOk("persistChunks", IndexVecs)

PersistEmbedFail == EmbedFail("persistChunks")

PersistAppendFile == WriteLines("persistChunks")

IndexReturn == RunReturn("persistChunks")

\* The index command starts on a fresh home directory or on a log that
\* already holds a record and a line that is not JSON.
IndexInit ==
    /\ storeFile \in {NoFile, OldLog(<<Garbage, OldLine(<<1, 0>>)>>)}
    /\ storeDir = storeFile.exists
    /\ lastSearch = NoSearch
    /\ initialFile = storeFile
    \* the segmenter is not in use, no run has been started
    /\ rawContent = <<>>
    /\ chunkSize = 1
    /\ overlap = 0
    /\ sentences = <<>>
    /\ startIndex = 0
    /\ chunks = <<>>
    /\ segPc = "off"
    /\ longIndex = 0
    /\ start = 0
    /\ longChunks = <<>>
    /\ runPc = "idle"
    /\ writer = "none"
    /\ runOpts = NoOpts
    /\ pending = <<>>
    /\ runI = 0
    /\ lines = <<>>
    /\ runError = "none"
    /\ inFlight = 0
    /\ srcReads = 0
    /\ embedCalls = 0
    /\ storeWrites = 0
    /\ history = <<>>
    /\ fileAtCall = NoFile
    \* no command has run, no chat is open
    /\ configFile = NoConfigFile
    /\ cliPc = "shell"
    /\ currentConfig = DEFAULT_CONFIG
    /\ query = NoQuery
    /\ printed = <<>>
    /\ exitCode = 0
    /\ lastCommand = NoCommand

Next ==
    \/ IndexCall
    \/ PersistEmbedRequest
    \/ PersistEmbedOk
    \/ PersistEmbedFail
    \/ PersistAppendFile
    \/ IndexReturn

Spec == IndexInit /\ [][Next]_vars

\* ------------------------------------------------------------------------
\* The command line: configuration commands, end-session and the chat loop
\* ------------------------------------------------------------------------
\* Every command is a process of its own that loads the configuration file
\* when it starts; the chat command keeps what it loaded in currentConfig
\* until it ends.  printed holds the shown of the command that ran last, in
\* a chat the shown since the last question.
cliFrame == UNCHANGED <<segVars, runVars, lastSearch, initialFile>>

Command(name, target, hadKey, dirBefore, threw) ==
    [name |-> name, target |-> target, hadKey |-> hadKey, dirBefore |-> dirBefore,
     threw |-> threw]

UnknownProvider(target) ==
    <<Line("stderr", "Unknown provider:", target, 0),
      Line("stdout", "Valid providers:", "", 0)>>

\* retrieval/store.ts clearStore, called on its own.
ClearStore ==
    /\ cliPc = "shell"
    /\ LET out == clearStore(storeDir, storeFile, configFile)
       IN  /\ storeDir' = out.dir
           /\ storeFile' = out.file
           /\ lastCommand' = Command("clearStore", "", FALSE, storeDir, out.threw)
    /\ query' = NoQuery
    /\ printed' = <<>>
    /\ UNCHANGED <<configFile, cliPc, currentConfig, exitCode>>
    /\ cliFrame

\* end-session: resetSession (clearStore, then resetConfig, each in its own
\* try block), then the defaults become the current configuration.
EndSession ==
    /\ cliPc = "shell"
    /\ LET out == clearStore(storeDir, storeFile, configFile)
       IN  /\ storeFile' = out.file
           /\ storeDir' = TRUE
           /\ lastCommand' = Command("end-session", "", FALSE, storeDir, FALSE)
           /\ printed' = (IF out.threw
                          THEN <<Line("stderr", "Failed to clear chunk index:", "", 0)>>
                          ELSE <<>>)
                         \o <<Line("stdout", "Session reset.", "", 0)>>
    /\ configFile' = saveConfig(DEFAULT_CONFIG)
    /\ query' = NoQuery
    /\ exitCode' = 0
    /\ UNCHANGED <<cliPc, currentConfig>>
    /\ cliFrame

\* api-key [value] --provider <name>
ApiKeySet ==
    /\ cliPc = "shell"
    /\ \E target \in {"ollama", "openai", "mistral"} :
         LET loaded == loadConfig(configFile)
             \* { ...currentConfig.apiKeys, [target]: value }
             nextKeys == [p \in DOMAIN loaded.apiKeys \cup {target} |->
                            IF p = target THEN "k" ELSE loaded.apiKeys[p]]
         IN  IF ~isValidProvider(target)
             THEN /\ printed' = UnknownProvider(target)
                  /\ exitCode' = 1
                  /\ lastCommand' = Command("api-key", target, FALSE, storeDir, FALSE)
                  /\ UNCHANGED <<configFile, storeDir>>
             ELSE /\ configFile' = saveConfig(applyConfigUpdate(loaded,
                                      [apiKeys |-> nextKeys]))
                  /\ storeDir' = TRUE
                  /\ printed' = <<Line("stdout", "API key updated.", target, 0)>>
                  /\ exitCode' = 0
                  /\ lastCommand' = Command("api-key", target, HasApiKey(loaded, target),
                                            storeDir, FALSE)
    /\ query' = NoQuery
    /\ UNCHANGED <<storeFile, cliPc, currentConfig>>
    /\ cliFrame

\* api-key --clear --provider <name>
ApiKeyClear ==
    /\ cliPc = "shell"
    /\ \E target \in {"ollama", "openai", "mistral"} :
         LET loaded == loadConfig(configFile)
             \* const nextKeys = { ...currentConfig.apiKeys }; delete nextKeys[target]
             nextKeys == [p \in DOMAIN loaded.apiKeys \ {target} |-> loaded.apiKeys[p]]
         IN  IF ~isValidProvider(target)
             THEN /\ printed' = UnknownProvider(target)
                  /\ exitCode' = 1
                  /\ lastCommand' = Command("api-key --clear", target, FALSE, storeDir, FALSE)
                  /\ UNCHANGED <<configFile, storeDir>>
             ELSE /\ configFile' = saveConfig(applyConfigUpdate(loaded,
                                      [apiKeys |-> nextKeys]))
                  /\ storeDir' = TRUE
                  /\ printed' = <<Line("stdout", "API key cleared.", target, 0)>>
                  /\ exitCode' = 0
                  /\ lastCommand' = Command("api-key --clear", target,
                                            HasApiKey(loaded, target), storeDir, FALSE)
    /\ query' = NoQuery
    /\ UNCHANGED <<storeFile, cliPc, currentConfig>>
    /\ cliFrame

\* model-provider <provider>
ModelProviderSet ==
    /\ cliPc = "shell"
    /\ \E provider \in DOMAIN PROVIDERS \cup {"mistral"} :
         LET loaded == loadConfig(configFile)
         IN  IF ~isValidProvider(provider)
             THEN /\ printed' = UnknownProvider(provider)
                  /\ exitCode' = 1
                  /\ UNCHANGED <<configFile, storeDir>>
             ELSE /\ configFile' = saveConfig(applyConfigUpdate(loaded,
                                      [modelProvider |-> provider,
                                       model |-> ensureModelForProvider(provider,
                                                     loaded.model, loaded.customModels)]))
                  /\ storeDir' = TRUE
                  /\ printed' = <<Line("stdout", "Model provider set", provider, 0)>>
                                \o (IF needsApiKey(provider) /\ ~HasApiKey(loaded, provider)
                                    THEN <<Line("stderr", "No API key stored", provider, 0)>>
                                    ELSE <<>>)
                  /\ exitCode' = 0
    /\ lastCommand' = NoCommand
    /\ query' = NoQuery
    /\ UNCHANGED <<storeFile, cliPc, currentConfig>>
    /\ cliFrame

\* model <modelId> [--custom]: an identifier no provider lists and one that
\* openai lists.
ModelSet ==
    /\ cliPc = "shell"
    /\ \E modelId \in {"llama3", "gpt-4o"}, custom \in BOOLEAN :
         LET loaded == loadConfig(configFile)
             cmd == modelCommand(loaded.modelProvider, modelId, custom)
         IN  /\ IF ~cmd.accepted
                THEN /\ printed' = <<Line("stderr", "is not in the supported list",
                                          loaded.modelProvider, 0)>>
                     /\ exitCode' = 1
                     /\ UNCHANGED <<configFile, storeDir>>
                ELSE /\ configFile' = saveConfig(applyConfigUpdate(loaded, cmd.patch))
                     /\ storeDir' = TRUE
                     /\ printed' = <<Line("stdout", "Model set", loaded.modelProvider, 0)>>
                     /\ exitCode' = 0
             /\ lastCommand' = Command("model", modelId, FALSE, storeDir, FALSE)
    /\ query' = NoQuery
    /\ UNCHANGED <<storeFile, cliPc, currentConfig>>
    /\ cliFrame

\* A command that writes one setting: web-search on|off, rag on|off,
\* web-search-provider <name>, context-chunks <count>.
Setting ==
    /\ cliPc = "shell"
    /\ \E patch \in {[webSearchEnabled |-> on] : on \in BOOLEAN}
                     \cup {[ragEnabled |-> on] : on \in BOOLEAN}
                     \cup {[webSearchProvider |-> name] : name \in {"bing", "duck"}}
                     \cup {[chunksPerQuery |-> count] : count \in {1, 5}} :
         configFile' = saveConfig(applyConfigUpdate(loadConfig(configFile), patch))
    /\ storeDir' = TRUE
    /\ printed' = <<Line("stdout", "set", "", 0)>>
    /\ exitCode' = 0
    /\ lastCommand' = NoCommand
    /\ query' = NoQuery
    /\ UNCHANGED <<storeFile, cliPc, currentConfig>>
    /\ cliFrame

\* chat: the process starts, the configuration is loaded, the first prompt
\* is shown.
ChatStart ==
    /\ cliPc = "shell"
    /\ cliPc' = "prompt"
    /\ currentConfig' = loadConfig(configFile)
    /\ query' = NoQuery
    /\ printed' = <<>>
    /\ exitCode' = 0
    /\ UNCHANGED <<storeDir, storeFile, configFile, lastCommand>>
    /\ cliFrame

\* exit, quit or bye at the prompt.
ChatExit ==
    /\ cliPc = "prompt"
    /\ cliPc' = "shell"
    /\ currentConfig' = DEFAULT_CONFIG
    /\ query' = NoQuery
    /\ printed' = <<>>
    /\ UNCHANGED <<storeDir, storeFile, configFile, exitCode, lastCommand>>
    /\ cliFrame

\* An error leaves executeQuery and the chat loop (both have try/finally
\* only) and reaches the catch of run(): handleCliError prints it and sets
\* the exit code; the readline interface is closed and the process ends.
Uncaught(q, shown) ==
    /\ query' = q
    /\ printed' = shown \o <<Line("stderr", "[cli]", "", q.status)>>
    /\ exitCode' = 1
    /\ cliPc' = "shell"
    /\ currentConfig' = DEFAULT_CONFIG

\* A runQuery that puts the questions asked before in front of the question.
runQueryPromptWithEarlier(q, snippets) ==
    buildPrompt(q.earlier \o q.question, q.contexts, snippets,
                currentConfig.webSearchEnabled)

\* const prompt = buildPrompt(question, contexts, webSnippets, webSearchEnabled)
runQueryPrompt(q, snippets) ==
    buildPrompt(q.question, q.contexts, snippets, currentConfig.webSearchEnabled)

\* runQuery from buildPrompt on: the prompt, then dispatchToProvider up to
\* its request; an error thrown before the request is caught by the try
\* block of runQuery.
Compose(q, snippets, shown) ==
    LET provider == currentConfig.modelProvider
        sent == dispatchToProvider(provider, HasApiKey(currentConfig, provider))
        composed == [q EXCEPT !.webSnippets = snippets,
                              !.prompt = runQueryPrompt(q, snippets),
                              !.calls.prompt = 1,
                              !.calls.dispatch = 1]
    IN  IF sent = "fetch"
        THEN /\ query' = [composed EXCEPT !.calls.provider = 1]
             /\ printed' = shown
             /\ cliPc' = "provider"
             /\ UNCHANGED <<exitCode, currentConfig>>
        ELSE LET tail == runQueryTail([kind |-> sent, status |-> 0], provider,
                                      q.contexts, snippets)
                 failed == [composed EXCEPT !.failure = "provider", !.reply = sent]
             IN  IF tail.thrown
                 THEN Uncaught(failed, shown)
                 ELSE /\ query' = failed
                      /\ printed' = shown \o tail.lines
                      /\ cliPc' = "prompt"
                      /\ UNCHANGED <<exitCode, currentConfig>>

\* A non-empty question at the prompt: executeQuery, and runQuery up to the
\* request for the embedding of the question.
ChatQuestion ==
    /\ cliPc = "prompt"
    /\ \E question \in {<<"q1">>, <<"q2">>} :
       LET gate == executeQueryGate(currentConfig)
           provider == currentConfig.modelProvider
           \* (earlier: the questions this session was asked before, a
           \* history the program does not keep)
           asked == [NoQuery EXCEPT !.asked = TRUE, !.gate = gate,
                                    !.question = question,
                                    !.earlier = query.question]
       IN  CASE gate = "unknown" ->
                  /\ query' = asked
                  /\ printed' = <<Line("stderr", "Unknown provider:", provider, 0)>>
                  /\ exitCode' = 1
                  /\ cliPc' = "prompt"
             [] gate = "nokey" ->
                  /\ query' = asked
                  /\ printed' = <<Line("stderr", "No API key configured for", provider, 0)>>
                  /\ exitCode' = 1
                  /\ cliPc' = "prompt"
             [] OTHER ->
                  /\ query' = [asked EXCEPT !.calls.embed = 1]
                  /\ printed' = <<>>
                  /\ cliPc' = "embedding"
                  /\ UNCHANGED exitCode
    /\ UNCHANGED <<storeDir, storeFile, configFile, currentConfig, lastCommand>>
    /\ cliFrame

\* The contexts of runQuery with the store searched whatever ragEnabled is.
retrieveAlways(ragEnabled, file, queryEmbedding, k) ==
    [searched |-> 1, with |-> <<queryEmbedding, k>>,
     contexts |-> searchChunks(file, queryEmbedding, k).result]

\* const contexts = context.ragEnabled === false ? [] : searchChunks(...):
\* whether the store was searched, with what, and the contexts.
retrieve(ragEnabled, file, queryEmbedding, k) ==
    IF ragEnabled = FALSE
    THEN [searched |-> 0, with |-> <<>>, contexts |-> <<>>]
    ELSE [searched |-> 1, with |-> <<queryEmbedding, k>>,
          contexts |-> searchChunks(file, queryEmbedding, k).result]

\* getEmbedding returns: the store is searched unless retrieval is off, and
\* the web search is started when it is on.
EmbeddingOk ==
    /\ cliPc = "embedding"
    /\ \E v \in { <<1, 0>>, <<0, 0>> }, hasWebKey \in BOOLEAN :
         LET found == retrieve(currentConfig.ragEnabled, storeFile, v,
                               currentConfig.chunksPerQuery)
             searched == [query EXCEPT !.queryEmbedding = v,
                                       !.contexts = found.contexts,
                                       !.searchedWith = found.with,
                                       !.calls.search = found.searched]
             started == performWebSearchStart(currentConfig.webSearchProvider, hasWebKey)
         IN  IF ~currentConfig.webSearchEnabled
             THEN Compose(searched, <<>>, printed)
             ELSE IF started = "fetch"
             THEN /\ query' = [searched EXCEPT !.calls.web = 1, !.calls.webFetch = 1]
                  /\ cliPc' = "web"
                  /\ UNCHANGED <<printed, exitCode, currentConfig>>
             ELSE LET safe == safeWebSearch(started, <<>>)
                      called == [searched EXCEPT !.calls.web = 1, !.failure = "web",
                                                 !.webFailure = started,
                                                 !.reply = started]
                      shown == printed \o (IF safe.warned
                                           THEN <<Line("stderr", "Web search failed:", "", 0)>>
                                           ELSE <<>>)
                  IN  IF safe.threw
                      THEN Uncaught(called, printed)
                      ELSE Compose(called, safe.snippets, shown)
    /\ UNCHANGED <<storeDir, storeFile, configFile, lastCommand>>
    /\ cliFrame

\* getEmbedding that answers a failure with an empty vector.
EmbeddingFailsQuietly ==
    /\ cliPc = "embedding"
    /\ \E reply \in {"status", "network", "malformed"} :
         Compose([query EXCEPT !.failure = "embedding", !.reply = reply], <<>>, printed)
    /\ UNCHANGED <<storeDir, storeFile, configFile, lastCommand>>
    /\ cliFrame

\* getEmbedding throws: the service is unreachable, answers with a
\* non-success status, or sends no embedding.  The await is outside the try
\* block of runQuery.
EmbeddingFails ==
    /\ cliPc = "embedding"
    /\ \E reply \in {"status", "network", "malformed"} :
         Uncaught([query EXCEPT !.failure = "embedding", !.reply = reply,
                                !.status = IF reply = "status" THEN 500 ELSE 0],
                  printed)
    /\ UNCHANGED <<storeDir, storeFile, configFile, lastCommand>>
    /\ cliFrame

\* The web search answers, or fails; safeWebSearch hands on the snippets or
\* none.
WebReply ==
    /\ cliPc = "web"
    /\ \E reply \in { [kind |-> "ok", status |-> 200, items |-> <<>>],
                       [kind |-> "ok", status |-> 200, items |-> <<"w">>],
                       [kind |-> "status", status |-> 500, items |-> <<>>],
                       [kind |-> "network", status |-> 0, items |-> <<>>] } :
         LET safe == safeWebSearch(reply.kind, reply.items)
             got == IF reply.kind = "ok" THEN query
                    ELSE [query EXCEPT !.failure = "web", !.webFailure = reply.kind,
                                       !.reply = reply.kind,
                                       !.status = reply.status]
             shown == printed \o (IF safe.warned
                                  THEN <<Line("stderr", "Web search failed:", "", reply.status)>>
                                  ELSE <<>>)
         IN  IF safe.threw
             THEN Uncaught(got, printed)
             ELSE Compose(got, safe.snippets, shown)
    /\ UNCHANGED <<storeDir, storeFile, configFile, lastCommand>>
    /\ cliFrame

\* The provider answers, or fails; the try block of runQuery prints the
\* answer and the sources, or the failure.
ProviderReply ==
    /\ cliPc = "provider"
    /\ \E reply \in { [kind |-> "ok", status |-> 200],
                       [kind |-> "status", status |-> 401],
                       [kind |-> "status", status |-> 500],
                       [kind |-> "network", status |-> 0] } :
         LET provider == currentConfig.modelProvider
             tail == runQueryTail(reply, provider, query.contexts, query.webSnippets)
             got == IF reply.kind = "ok" THEN [query EXCEPT !.reply = "ok"]
                    ELSE [query EXCEPT !.failure = "provider", !.reply = reply.kind,
                                       !.status = reply.status]
         IN  IF tail.thrown
             THEN Uncaught(got, printed)
             ELSE /\ query' = got
                  /\ printed' = printed \o tail.lines
                  /\ cliPc' = "prompt"
                  /\ UNCHANGED <<exitCode, currentConfig>>
    /\ UNCHANGED <<storeDir, storeFile, configFile, lastCommand>>
    /\ cliFrame

CliInit ==
    \* nothing is being segmented
    /\ rawContent = <<>>
    /\ chunkSize = 1
    /\ overlap = 0
    /\ sentences = <<>>
    /\ startIndex = 0
    /\ chunks = <<>>
    /\ segPc = "call"
    /\ longIndex = 0
    /\ start = 0
    /\ longChunks = <<>>
    \* no indexing run
    /\ runPc = "idle"
    /\ writer = "none"
    /\ runOpts = NoOpts
    /\ pending = <<>>
    /\ runI = 0
    /\ lines = <<>>
    /\ runError = "none"
    /\ inFlight = 0
    /\ srcReads = 0
    /\ embedCalls = 0
    /\ storeWrites = 0
    /\ history = <<>>
    /\ fileAtCall = NoFile
    /\ lastSearch = NoSearch
    \* the store the commands find (no log, an empty log, or a log with
    \* records and a line that does not parse), and no configuration file
    /\ storeFile \in { NoFile, OldLog(<<>>),
                       OldLog(<<OldLine(<<1, 0>>), Garbage, OldLine(<<0, 1>>)>>) }
    /\ storeDir \in BOOLEAN
    /\ storeFile.exists => storeDir
    /\ initialFile = storeFile
    /\ configFile = NoConfigFile
    /\ cliPc = "shell"
    /\ currentConfig = DEFAULT_CONFIG
    /\ query = NoQuery
    /\ printed = <<>>
    /\ exitCode = 0
    /\ lastCommand = NoCommand

CliNext ==
    \/ ClearStore
    \/ EndSession
    \/ ApiKeySet
    \/ ApiKeyClear
    \/ ModelProviderSet
    \/ Setting
    \/ ChatStart
    \/ ChatExit
    \/ ChatQuestion
    \/ EmbeddingOk
    \/ EmbeddingFails
    \/ WebReply
    \/ ProviderReply

CliSpec == CliInit /\ [][CliNext]_vars

\* ------------------------------------------------------------------------
\* The commands that write the model, the provider or a setting, and
\* end-session; every command is a process of its own that loads the saved
\* configuration
\* ------------------------------------------------------------------------
ConfigInit ==
    \* nothing is being segmented
    /\ rawContent = <<>>
    /\ chunkSize = 1
    /\ overlap = 0
    /\ sentences = <<>>
    /\ startIndex = 0
    /\ chunks = <<>>
    /\ segPc = "call"
    /\ longIndex = 0
    /\ start = 0
    /\ longChunks = <<>>
    \* no indexing run
    /\ runPc = "idle"
    /\ writer = "none"
    /\ runOpts = NoOpts
    /\ pending = <<>>
    /\ runI = 0
    /\ lines = <<>>
    /\ runError = "none"
    /\ inFlight = 0
    /\ srcReads = 0
    /\ embedCalls = 0
    /\ storeWrites = 0
    /\ history = <<>>
    /\ fileAtCall = NoFile
    /\ lastSearch = NoSearch
    \* a fresh home directory: no store and no configuration file
    /\ storeFile = NoFile
    /\ storeDir = FALSE
    /\ initialFile = storeFile
    /\ configFile = NoConfigFile
    /\ cliPc = "shell"
    /\ currentConfig = DEFAULT_CONFIG
    /\ query = NoQuery
    /\ printed = <<>>
    /\ exitCode = 0
    /\ lastCommand = NoCommand

ConfigNext ==
    \/ ModelSet
    \/ ModelProviderSet
    \/ Setting
    \/ EndSession

ConfigSpec == ConfigInit /\ [][ConfigNext]_vars

\* ------------------------------------------------------------------------
\* Properties of the segmenter
\* ------------------------------------------------------------------------
\* C1: every chunk the segmenter has emitted, packed or cut from a unit
\* longer than chunkSize by splitLongSegment, has length <= chunkSize.
ChunksWithinSize ==
    /\ \A i \in 1..Len(chunks) : Len(chunks[i]) <= chunkSize
    /\ \A i \in 1..Len(longChunks) : Len(longChunks[i]) <= chunkSize

\* A finished run that emitted a packed chunk of two units and the windows
\* of a force-split unit.
ChunksWithinSizeWitness ==
    /\ segPc = "done"
    /\ Len(NonEmpty(longChunks)) >= 2
    /\ Len(chunks) > Len(NonEmpty(longChunks))
    /\ \E i \in 1..Len(chunks) : \E j \in 1..Len(chunks[i]) : chunks[i][j] = SP

\* C2: the segmenter terminates: every completed iteration of the outer loop
\* leaves with a strictly larger start index, every window of
\* splitLongSegment starts at least one character after the previous one,
\* and both indices are bounded (by the number of units and by the length of
\* the unit being split), so neither loop can run for ever.
SegmenterTerminates ==
    /\ [][/\ (segPc \in {"outer", "split"} /\ segPc' = "outer") => startIndex' > startIndex
          /\ (segPc = "split" /\ segPc' = "split") => start' >= start + 1]_vars
    /\ [](/\ startIndex <= Len(sentences)
          /\ segPc = "split" => start < Len(sentences[longIndex + 1]))

\* A finished run with overlap >= chunkSize that went through both loops:
\* several windows of a long unit and a packed chunk after the first unit.
SegmenterTerminatesWitness ==
    /\ segPc = "done"
    /\ overlap >= chunkSize
    /\ Len(longChunks) >= 3
    /\ Len(sentences) >= 3
    /\ Len(chunks) > Len(NonEmpty(longChunks))

\* ------------------------------------------------------------------------
\* Properties of the index command
\* ------------------------------------------------------------------------
\* C3: indexDocuments called with chunkSize <= 0 or overlap < 0 throws the
\* validation error and has done nothing else: no file-system call on the
\* source directory, no getEmbedding call, no mkdir and no appendFile on the
\* store, and the log is as it was when the call was made.
ValidationBeforeWork ==
    (/\ writer = "persistChunks"
     /\ runOpts.chunkSize <= 0 \/ runOpts.overlap < 0)
        => /\ runPc = "failed"
           /\ runError = "validation"
           /\ srcReads = 0
           /\ embedCalls = 0
           /\ storeWrites = 0
           /\ storeFile = fileAtCall

\* A call with a good chunkSize and a negative overlap on the directory that
\* has files to index, made after an earlier run has written the log.
ValidationBeforeWorkWitness ==
    /\ runPc = "failed"
    /\ runError = "validation"
    /\ runOpts.chunkSize > 0
    /\ runOpts.overlap < 0
    /\ runOpts.dir = Docs
    /\ Len(history) >= 1

\* ------------------------------------------------------------------------
\* Properties of the searches
\* ------------------------------------------------------------------------
Range(seq) == {seq[i] : i \in 1..Len(seq)}

\* The lines of the log the last search read.
FileLines == SplitLines(TrimFile(storeFile.data), <<>>)

\* The stored records: the lines that parse to an object with an embedding.
VectorLines ==
    SelectSeq(FileLines, LAMBDA line : Len(line) = 1 /\ line[1].kind = "object")

\* The lines the search that was called keeps.
AcceptedLines ==
    IF lastSearch.fn = "loadTopChunks" THEN SelectSeq(FileLines, HasAllFields)
    ELSE VectorLines

\* A line as the search that was called returns it.
AsReturned(line) ==
    IF lastSearch.fn = "loadTopChunks" THEN Picked(line) ELSE Parsed(line)

AllAsReturned(fileLines) == [i \in 1..Len(fileLines) |-> AsReturned(fileLines[i])]

\* The similarity of the query of the last search to an embedding.
Similarity(embedding) == cosineSimilarity(lastSearch.q, embedding)

\* x > y for two similarities; a comparison with NaN is false.
Greater(x, y) == IsFinite(x) /\ IsFinite(y) /\ ScoreLess(y, x)

ZeroVector(v) == \A i \in 1..Len(v) : v[i] = 0

\* C4: a search with k >= 0 does not throw and returns at most k records;
\* on an absent log and on a log with no line in it it returns the empty
\* list.
SearchAtMostK ==
    lastSearch.done =>
        /\ ~lastSearch.threw
        /\ Len(lastSearch.result) <= lastSearch.k
        /\ (~storeFile.exists \/ \A i \in 1..Len(storeFile.data) : storeFile.data[i].kind = "lf")
              => lastSearch.result = <<>>

\* A search that had more records to choose from than k and returned k of
\* them.
SearchAtMostKWitness ==
    /\ lastSearch.done
    /\ lastSearch.k >= 1
    /\ Len(AcceptedLines) > lastSearch.k
    /\ Len(lastSearch.result) = lastSearch.k

\* A search on an absent log.
SearchAbsentLogWitness ==
    /\ lastSearch.done
    /\ ~storeFile.exists
    /\ lastSearch.k >= 1

\* The result is in non-increasing order of similarity, and no line of
\* `candidates` that is not in the result has a finite similarity greater
\* than that of a returned record.
RankedTopK(candidates) ==
    LET result == lastSearch.result
    IN  /\ \A i \in 1..Len(result) : \A j \in 1..Len(result) :
              i < j => ~Greater(Similarity(result[j].embedding),
                                Similarity(result[i].embedding))
        /\ \A c \in 1..Len(candidates) :
              (/\ AsReturned(candidates[c]) \notin Range(result)
               /\ IsFinite(Similarity(candidates[c][1].embedding)))
                 => \A j \in 1..Len(result) :
                       ~Greater(Similarity(candidates[c][1].embedding),
                                Similarity(result[j].embedding))

CleanedFile == [exists |-> storeFile.exists, data |-> Payload(FlattenSeq(VectorLines))]

SearchAgain(file) ==
    IF lastSearch.fn = "loadTopChunks"
    THEN loadTopChunks(file, lastSearch.q, lastSearch.k)
    ELSE searchChunks(file, lastSearch.q, lastSearch.k)

\* C6: a search never throws, whatever lines the log has, and it returns
\* what the same search returns on the log without the lines that fail to
\* parse or have no embedding array.
BadLinesSkipped ==
    lastSearch.done =>
        /\ ~lastSearch.threw
        /\ lastSearch.result = SearchAgain(CleanedFile).result

\* A search that returned records from a log with a line that is not JSON
\* and a line that is JSON with no embedding.
BadLinesSkippedWitness ==
    /\ lastSearch.done
    /\ Len(lastSearch.result) >= 1
    /\ \E i \in 1..Len(FileLines) : ParseThrows(FileLines[i])
    /\ \E i \in 1..Len(FileLines) : ~ParseThrows(FileLines[i]) /\ ~HasVector(FileLines[i])

\* No line of `candidates` has a finite similarity to the query.
NoneFinite(candidates) ==
    /\ Len(candidates) >= 1
    /\ \A c \in 1..Len(candidates) : ~IsFinite(Similarity(candidates[c][1].embedding))

ZeroSimilarity ==
    \A c \in 1..Len(VectorLines) :
        (ZeroVector(lastSearch.q) \/ ZeroVector(VectorLines[c][1].embedding))
            => Similarity(VectorLines[c][1].embedding) = FinScore(0, 1)

\* C8 as stated: that similarity is 0, and a record with a zero-length or
\* zero-magnitude embedding is not in the result of a search that has a
\* record of non-zero similarity to return.
ZeroVectorExcluded ==
    lastSearch.done =>
        /\ ZeroSimilarity
        /\ (\E c \in 1..Len(AcceptedLines) :
               /\ IsFinite(Similarity(AcceptedLines[c][1].embedding))
               /\ Similarity(AcceptedLines[c][1].embedding).d # 0)
              => \A c \in 1..Len(AcceptedLines) :
                    ZeroVector(AcceptedLines[c][1].embedding)
                       => AsReturned(AcceptedLines[c]) \notin Range(lastSearch.result)

\* C8 as amended: that similarity is 0, which is finite, so the record
\* passes the filter and is ranked with similarity 0: it is absent from the
\* result only when the result has k records, none of negative similarity.
ZeroVectorRanked ==
    lastSearch.done =>
        /\ ZeroSimilarity
        /\ \A c \in 1..Len(AcceptedLines) :
              (/\ ZeroVector(AcceptedLines[c][1].embedding)
               /\ AsReturned(AcceptedLines[c]) \notin Range(lastSearch.result))
                 => /\ Len(lastSearch.result) = lastSearch.k
                    /\ \A j \in 1..Len(lastSearch.result) :
                          /\ IsFinite(Similarity(lastSearch.result[j].embedding))
                          /\ Similarity(lastSearch.result[j].embedding).d >= 0

\* A search that returned a record with a zero-magnitude embedding ahead of
\* a record of negative similarity.
ZeroVectorRankedWitness ==
    /\ lastSearch.done
    /\ Len(lastSearch.result) = 2
    /\ lastSearch.result[1].embedding = <<0, 0>>
    /\ Similarity(lastSearch.result[2].embedding).d < 0

\* The record the last appendChunks wrote, and the stored records before it.
Appended == VectorLines[Len(VectorLines)]

Others == SubSeq(VectorLines, 1, Len(VectorLines) - 1)

\* A search after an append of one chunk, with k >= 1 and the embedding of
\* that chunk as the query.
RoundTrip ==
    /\ lastSearch.done
    /\ lastSearch.k >= 1
    /\ Len(history) >= 1
    /\ Len(VectorLines) >= 1
    /\ Parsed(Appended) = history[Len(history)].records[1]
    /\ lastSearch.q = Appended[1].embedding

\* The search returned the appended record and no stored record has a
\* greater similarity than it.
AppendedFound ==
    /\ AsReturned(Appended) \in Range(lastSearch.result)
    /\ IsFinite(Similarity(Appended[1].embedding))
    /\ \A c \in 1..Len(VectorLines) :
          ~Greater(Similarity(VectorLines[c][1].embedding),
                   Similarity(Appended[1].embedding))

\* b is a positive multiple of a.
SameDirection(a, b) ==
    /\ Len(a) = Len(b)
    /\ \A i \in 1..Len(a) : \A j \in 1..Len(a) : a[i] * b[j] = a[j] * b[i]
    /\ \E i \in 1..Len(a) : a[i] * b[i] > 0

\* C9 as stated: the round trip finds the appended chunk provided no other
\* stored record has the same embedding.
RoundTripNoDuplicate ==
    (/\ RoundTrip
     /\ \A c \in 1..Len(Others) : Others[c][1].embedding # Appended[1].embedding)
        => AppendedFound

\* C9 as amended: the round trip finds the appended chunk provided its
\* embedding has a finite, non-zero magnitude and no other stored record
\* has an embedding in the same direction.
RoundTripNoParallel ==
    (/\ RoundTrip
     /\ ~ZeroVector(Appended[1].embedding)
     /\ DotUpTo(Appended[1].embedding, Appended[1].embedding,
                Len(Appended[1].embedding)).k = "fin"
     /\ \A c \in 1..Len(Others) :
           ~SameDirection(Others[c][1].embedding, Appended[1].embedding))
        => AppendedFound

\* A round trip with k = 1 on a log that has two older records, one of them
\* at a smaller similarity and one of similarity 0.
RoundTripWitness ==
    /\ RoundTrip
    /\ lastSearch.k = 1
    /\ Len(Others) = 2
    /\ ~ZeroVector(Appended[1].embedding)
    /\ \A c \in 1..Len(Others) :
          ~SameDirection(Others[c][1].embedding, Appended[1].embedding)
    /\ \E c \in 1..Len(Others) : Similarity(Others[c][1].embedding).d < 0
    /\ lastSearch.result = <<AsReturned(Appended)>>

\* ------------------------------------------------------------------------
\* Properties of the log
\* ------------------------------------------------------------------------
RECURSIVE RecordsOfRuns(_)
RecordsOfRuns(runs) ==
    IF runs = <<>> THEN <<>>
    ELSE runs[1].records \o RecordsOfRuns(Tail(runs))

\* The number of stored records with an id.
CountId(records, id) == Cardinality({i \in 1..Len(records) : records[i].id = id})

\* C10: the log holds what it held before the first run, then the records
\* of every successful run in run order; the records of a run are the
\* chunks indexDocuments handed over, one record per chunk, in their order.
AppendOnlyLog ==
    /\ LogRecords(storeFile) = LogRecords(initialFile) \o RecordsOfRuns(history)
    /\ \A r \in 1..Len(history) :
          /\ Len(history[r].records) = Len(history[r].chunks)
          /\ \A i \in 1..Len(history[r].chunks) :
                /\ history[r].records[i].id = history[r].chunks[i].id
                /\ history[r].records[i].filePath = history[r].chunks[i].filePath
                /\ history[r].records[i].content = history[r].chunks[i].content

\* Two successful runs over the same files on a log that had a record: each
\* chunk id of the run is stored twice, after the old record.
AppendOnlyLogWitness ==
    /\ runPc = "idle"
    /\ Len(history) = 2
    /\ history[1].chunks = history[2].chunks
    /\ Len(history[1].chunks) >= 2
    /\ Len(LogRecords(initialFile)) = 1
    /\ \A i \in 1..Len(history[1].chunks) :
          CountId(LogRecords(storeFile), history[1].chunks[i].id) = 2

\* ------------------------------------------------------------------------
\* Properties of the command line
\* ------------------------------------------------------------------------
ResetRan == lastCommand.name \in {"clearStore", "end-session"}

HasRecords(file) == file.exists /\ Len(file.data) > 0

\* C11: after a reset the log is gone and the reset did not fail, whether or
\* not there was a log; the directory is gone exactly when it holds nothing
\* else (clearStore on its own), every search returns the empty list, and so
\* does the search of a question asked afterwards.
ResetClearsStore ==
    /\ ResetRan =>
         /\ ~storeFile.exists
         /\ ~lastCommand.threw
         /\ \A q \in Vecs, k \in 0..MaxK :
              /\ searchChunks(storeFile, q, k) = [threw |-> FALSE, result |-> <<>>]
              /\ loadTopChunks(storeFile, q, k) = [threw |-> FALSE, result |-> <<>>]
         /\ query.calls.search = 1 => query.contexts = <<>>
    /\ lastCommand.name = "clearStore" =>
         storeDir = (lastCommand.dirBefore /\ configFile.exists)

\* A log with records was cleared, the directory went with it, and a
\* question asked afterwards found nothing.
ResetClearsStoreWitness ==
    /\ lastCommand.name = "clearStore"
    /\ HasRecords(initialFile)
    /\ lastCommand.dirBefore
    /\ ~storeDir
    /\ query.calls.search = 1
    /\ query.contexts = <<>>

\* A reset with no log to delete.
ResetAbsentLogWitness ==
    /\ ResetRan
    /\ ~initialFile.exists
    /\ ~lastCommand.threw

\* A question has been asked in a chat whose provider needs a key that the
\* configuration does not have.
AskedWithoutKey ==
    /\ cliPc # "shell"
    /\ query.asked
    /\ currentConfig.modelProvider \in {"openai", "anthropic", "google"}
    /\ currentConfig.modelProvider \notin DOMAIN currentConfig.apiKeys

\* C12: a question for a provider that needs a key, with none configured,
\* makes no call at all (no embedding, no store search, no web search, no
\* prompt, no provider request); it ends at the prompt with an error line
\* that names the provider, and the exit code is set.
NoKeyFailsBeforeNetwork ==
    AskedWithoutKey =>
        /\ query.calls = NoQuery.calls
        /\ cliPc = "prompt"
        /\ exitCode = 1
        /\ \E i \in 1..Len(printed) :
             /\ printed[i].stream = "stderr"
             /\ printed[i].text = "No API key configured for"
             /\ printed[i].provider = currentConfig.modelProvider

\* The question was asked with web search on and retrieval on, so that
\* each of the calls would have been made.
NoKeyFailsBeforeNetworkWitness ==
    /\ AskedWithoutKey
    /\ currentConfig.webSearchEnabled
    /\ currentConfig.ragEnabled
    /\ currentConfig.modelProvider = "anthropic"
    /\ HasRecords(storeFile)

FailureReported ==
    \E i \in 1..Len(printed) :
        /\ printed[i].stream = "stderr"
        /\ printed[i].text \in {"Web search failed:", "Query failed:", "[cli]"}

\* C13: in a chat, a query that met a network failure (embedding, web search
\* or provider) has the failure reported and the chat goes on: the process
\* is still in the chat loop, at the prompt once the query has ended.
ChatContinuesAfterFailure ==
    query.failure # "none" =>
        /\ FailureReported
        /\ cliPc \in {"prompt", "web", "provider"}
        /\ query.reply \in {"network", "status"} /\ query.failure = "provider"
             => cliPc = "prompt"

\* The provider answered the question's request with a non-success status.
ProviderStatusFailure == query.failure = "provider" /\ query.reply = "status"

\* C14: when the provider answers with a non-success status, the query ends
\* with one "Query failed" line on stderr that carries that status; nothing
\* is thrown on to the caller (the chat is at its prompt, the exit code is
\* untouched by the failure, no "[cli]" line), and neither an answer nor a
\* list of sources is printed.
ProviderStatusReported ==
    ProviderStatusFailure =>
        /\ cliPc = "prompt"
        /\ query.status \in {401, 500}
        /\ \E i \in 1..Len(printed) :
             /\ printed[i].stream = "stderr"
             /\ printed[i].text = "Query failed:"
             /\ printed[i].status = query.status
        /\ \A i \in 1..Len(printed) :
             printed[i].text \notin
                {"[cli]", "Answer:", "Context snippets:", "[Chunk]", "Web sources:", "[Web]"}
        /\ exitCode = 0

\* The failing request carried context chunks and web snippets, which a
\* successful answer would have listed.
ProviderStatusReportedWitness ==
    /\ ProviderStatusFailure
    /\ query.status = 401
    /\ Len(query.contexts) > 0
    /\ Len(query.webSnippets) > 0

\* C15: when the embedding of the question fails, nothing else of the query
\* happens: the store is not searched, the web search is not called, no
\* prompt is composed and nothing is dispatched to the provider, whether
\* retrieval is on or off.
EmbeddingFailureAborts ==
    query.failure = "embedding" =>
        /\ query.calls = [NoQuery.calls EXCEPT !.embed = 1]
        /\ query.contexts = <<>>
        /\ query.webSnippets = <<>>
        /\ ~query.prompt.built
        /\ \A i \in 1..Len(printed) : printed[i].text \notin {"Answer:", "Query failed:"}

\* The embedding failed in a chat with retrieval off and web search on.
EmbeddingFailureAbortsWitness ==
    /\ query.failure = "embedding"
    /\ ~loadConfig(configFile).ragEnabled
    /\ loadConfig(configFile).webSearchEnabled

\* The same with retrieval on and a store with records.
EmbeddingFailureRetrievalOnWitness ==
    /\ query.failure = "embedding"
    /\ loadConfig(configFile).ragEnabled
    /\ HasRecords(storeFile)

\* C16: a failed web search (unsupported provider, missing key, non-success
\* status, network error) does not end the query: the snippet list is
\* empty, a warning is printed, the prompt is composed and the request goes
\* to the provider.  With web search off, performWebSearch is not called.
WebFailureNotFatal ==
    /\ query.webFailure # "none" =>
         /\ query.webFailure \in {"unsupported", "nokey", "status", "network"}
         /\ query.webSnippets = <<>>
         /\ query.prompt.built
         /\ query.prompt.snippets = <<>>
         /\ query.calls.dispatch = 1
         /\ query.calls.provider = 1
         /\ cliPc \in {"provider", "prompt"}
         /\ Len(printed) > 0
         /\ printed[1].stream = "stderr"
         /\ printed[1].text = "Web search failed:"
         /\ \A i \in 1..Len(printed) : printed[i].text # "[cli]"
    /\ (cliPc # "shell" /\ ~currentConfig.webSearchEnabled) =>
         /\ query.calls.web = 0
         /\ query.calls.webFetch = 0

\* The web search failed on the network and the provider has been asked.
WebFailureNotFatalWitness ==
    /\ query.webFailure = "network"
    /\ query.calls.webFetch = 1
    /\ query.calls.provider = 1
    /\ cliPc = "provider"

WebFailureStatusWitness == query.webFailure = "status"

WebFailureUnsupportedWitness == query.webFailure = "unsupported"

WebFailureNoKeyWitness == query.webFailure = "nokey"

\* A query ran to its answer with web search off.
WebDisabledWitness ==
    /\ cliPc = "prompt"
    /\ ~currentConfig.webSearchEnabled
    /\ query.reply = "ok"

\* ------------------------------------------------------------------------
\* Properties of an indexing run that fails or has nothing to index
\* ------------------------------------------------------------------------
EmbeddingFailed == runPc = "failed" /\ runError = "embedding"

\* C17: when an embedding call fails during an indexing run, that call was
\* the last one of the run (one call per chunk up to the failing one, none
\* in flight, nothing written), and the log is what it was when the run
\* started: every record, unchanged, in the same order.
EmbeddingFailureKeepsStore ==
    EmbeddingFailed =>
        /\ embedCalls = runI + 1
        /\ embedCalls <= Len(pending)
        /\ inFlight = 0
        /\ storeFile = fileAtCall
        /\ LogRecords(storeFile) = LogRecords(initialFile) \o RecordsOfRuns(history)

\* The run failed after a chunk had been embedded and with chunks still to
\* embed, on a log that an earlier run had appended to.
EmbeddingFailureKeepsStoreWitness ==
    /\ EmbeddingFailed
    /\ runI >= 1
    /\ runI + 1 < Len(pending)
    /\ Len(history) >= 1
    /\ HasRecords(fileAtCall)

\* The run that is under way was started with valid options on a directory
\* whose eligible files, if it has any, all normalize to the empty text.
EligibleFiles ==
    gatherFiles(runOpts.dir.path, runOpts.dir.entries, runOpts.recursive, runOpts.allowed)

NothingToIndex ==
    /\ writer = "persistChunks"
    /\ runOpts.chunkSize > 0
    /\ runOpts.overlap >= 0
    /\ runOpts.dir.kind = "dir"
    /\ \A f \in 1..Len(EligibleFiles) : normalizeWhitespace(EligibleFiles[f].content) = <<>>

\* C18: indexing a directory with no eligible file, or with eligible files
\* that all normalize to empty text, ends without error with zero chunks,
\* no embedding call and no write: the log is what it was, and there is
\* none if there was none.
EmptyIndexTouchesNothing ==
    NothingToIndex =>
        /\ runPc = "done"
        /\ runError = "none"
        /\ pending = <<>>
        /\ embedCalls = 0
        /\ inFlight = 0
        /\ storeWrites = 0
        /\ storeFile = fileAtCall
        /\ ~fileAtCall.exists => ~storeFile.exists

\* A directory whose one eligible file is blank was indexed where there was
\* no log.
EmptyIndexTouchesNothingWitness ==
    /\ NothingToIndex
    /\ Len(EligibleFiles) > 0
    /\ ~fileAtCall.exists
    /\ ~storeFile.exists

\* A directory with no eligible file was indexed.
EmptyDirectoryWitness ==
    /\ NothingToIndex
    /\ Len(EligibleFiles) = 0
    /\ ~storeFile.exists

\* The last command was api-key --clear for a provider that had a key.
ClearedStoredKey == lastCommand.name = "api-key --clear" /\ lastCommand.hadKey

\* C19: after api-key --clear for a provider that had a stored key, the
\* saved configuration has no key for that provider, and a question asked
\* afterwards with that provider (one that needs a key) is turned away for
\* its missing key.
ClearRemovesKey ==
    ClearedStoredKey =>
        /\ lastCommand.target \notin DOMAIN loadConfig(configFile).apiKeys
        /\ (cliPc # "shell" /\ query.asked
               /\ currentConfig.modelProvider = lastCommand.target
               /\ lastCommand.target \in {"openai", "anthropic", "google"})
             => query.gate = "nokey"

\* A question asked after the clear, with the provider whose key was to be
\* cleared, has gone to the provider.
ClearedKeyStillUsed ==
    /\ ClearedStoredKey
    /\ cliPc = "provider"
    /\ currentConfig.modelProvider = lastCommand.target
    /\ query.calls.provider = 1

\* The local section of a prompt says that there is no local context.
MarkedAbsent(prompt) == prompt.local = "<none>"

\* The query under way has searched a store without records.
SearchedEmptyStore ==
    /\ cliPc # "shell"
    /\ currentConfig.ragEnabled
    /\ query.calls.search = 1
    /\ ~HasRecords(storeFile)

\* C20: a question asked with retrieval on against an absent or empty store
\* gets the empty context list, and its prompt carries the "<none>" marker
\* in place of local chunks; in every prompt that is composed, the marker is
\* there exactly when the context list is empty (and the chunks are listed
\* otherwise), in the prompt of commands/query.ts as well.
EmptyStoreMarkedAbsent ==
    /\ SearchedEmptyStore =>
         /\ query.contexts = <<>>
         /\ query.prompt.built => MarkedAbsent(query.prompt)
    /\ query.prompt.built =>
         /\ MarkedAbsent(query.prompt) <=> query.contexts = <<>>
         /\ Len(query.prompt.chunks) = Len(query.contexts)
         /\ MarkedAbsent(buildPromptContext(query.contexts)) <=> query.contexts = <<>>

\* A prompt was composed after the search of an absent store.
EmptyStoreMarkedAbsentWitness ==
    /\ SearchedEmptyStore
    /\ ~storeFile.exists
    /\ query.prompt.built
    /\ MarkedAbsent(query.prompt)

\* A prompt was composed with chunks from the store.
PromptWithChunksWitness ==
    /\ query.prompt.built
    /\ Len(query.contexts) = 2
    /\ ~MarkedAbsent(query.prompt)

\* A prompt was composed after the search of a log that is there and empty.
EmptyLogWitness ==
    /\ SearchedEmptyStore
    /\ storeFile.exists
    /\ query.prompt.built

\* ------------------------------------------------------------------------
\* Properties of the units and of the order of the chunks
\* ------------------------------------------------------------------------
\* The characters of a text that are not white space, in order.
NonSpace(text) == SelectSeq(text, LAMBDA c : ~IsSpace(c))

\* C21: the units segmentText has produced, put together in order, hold
\* every character of the normalized text that is not white space, in the
\* same order: nothing but white space is lost between the text and its
\* units.
UnitsReconstructText ==
    segPc \in {"outer", "split", "done"} =>
        NonSpace(FlattenSeq(sentences)) = NonSpace(normalizeWhitespace(rawContent))

\* ------------------------------------------------------------------------
\* Properties of the embedding loop of an indexing run
\* ------------------------------------------------------------------------
\* C22: the log changes only in the one step that follows the last
\* embedding of a run, when every chunk of the run has its line; until then,
\* and after a failure, the log is what it was when the run started, and
\* after that step it holds exactly one more record per chunk of the run.
SingleWriteAfterAllEmbeddings ==
    /\ [][storeFile' # storeFile =>
            /\ runPc = "write"
            /\ runPc' = "done"
            /\ runI = Len(pending)
            /\ Len(lines) = Len(pending)
            /\ embedCalls = Len(pending)
            /\ inFlight = 0]_vars
    /\ [](/\ runPc \in {"embed", "await", "write", "failed"} => storeFile = fileAtCall
          /\ runPc = "done" =>
               Len(LogRecords(storeFile)) = Len(LogRecords(fileAtCall)) + Len(pending))

\* A run of several chunks has written its lines to a log that had records.
SingleWriteAfterAllEmbeddingsWitness ==
    /\ runPc = "done"
    /\ Len(pending) >= 2
    /\ HasRecords(fileAtCall)
    /\ Len(LogRecords(storeFile)) = Len(LogRecords(fileAtCall)) + Len(pending)

\* A run failed at a later chunk and the log has none of its records.
PartialRunNotWrittenWitness ==
    /\ EmbeddingFailed
    /\ Len(lines) >= 1
    /\ storeFile = fileAtCall

\* C23: at most one embedding request is in flight; a request is issued
\* only when every earlier request of the run has been answered (as many
\* lines as requests), so it is the request for the next chunk in the order
\* of the chunk list, and the lines are in that order too.
OneEmbeddingAtATime ==
    /\ [][embedCalls' > embedCalls =>
            /\ embedCalls' = embedCalls + 1
            /\ inFlight = 0
            /\ embedCalls = runI
            /\ Len(lines) = runI
            /\ runI < Len(pending)]_vars
    /\ [](/\ inFlight \in {0, 1}
          /\ inFlight = 1 <=> runPc = "await"
          /\ runPc = "await" => embedCalls = runI + 1
          /\ Len(lines) <= Len(pending)
          /\ \A i \in 1..Len(lines) : Parsed(<<lines[i]>>).id = pending[i].id)

\* The third request of a run is in flight after two answers.
OneEmbeddingAtATimeWitness ==
    /\ runPc = "await"
    /\ inFlight = 1
    /\ runI = 2
    /\ embedCalls = 3
    /\ Len(lines) = 2

\* ------------------------------------------------------------------------
\* Properties of retrieval in a query
\* ------------------------------------------------------------------------
\* The embedding of the question of the query under way has arrived.
Embedded == cliPc # "shell" /\ query.asked /\ query.queryEmbedding # <<>>

\* The number of records in the log.
StoredVectors == Len(LogRecords(storeFile))

\* C24: with retrieval off the context list is empty and the store is not
\* searched; with retrieval on the store is searched once, with the
\* embedding of the question and k = chunksPerQuery, and the contexts are
\* what that search returns (never more than k).
RetrievalOnlyWhenEnabled ==
    Embedded =>
        /\ ~currentConfig.ragEnabled =>
             /\ query.calls.search = 0
             /\ query.searchedWith = <<>>
             /\ query.contexts = <<>>
        /\ currentConfig.ragEnabled =>
             /\ query.calls.search = 1
             /\ query.searchedWith = <<query.queryEmbedding, currentConfig.chunksPerQuery>>
             /\ Len(query.contexts) <= currentConfig.chunksPerQuery
             /\ Len(query.contexts) = Min(StoredVectors, currentConfig.chunksPerQuery)

\* Retrieval is off and the store has records the search would have found.
RetrievalOnlyWhenEnabledWitness ==
    /\ Embedded
    /\ ~currentConfig.ragEnabled
    /\ StoredVectors = 2
    /\ query.prompt.built

\* Retrieval is on with k = 1 and the store has two records.
RetrievalTopOneWitness ==
    /\ Embedded
    /\ currentConfig.ragEnabled
    /\ currentConfig.chunksPerQuery = 1
    /\ StoredVectors = 2
    /\ Len(query.contexts) = 1

\* ------------------------------------------------------------------------
\* Properties of the packing loop
\* ------------------------------------------------------------------------
\* The index after the last unit of the chunk that is packed from `from`.
PackedEnd(from) == PackFrom(sentences, from, 0, chunkSize).endIndex

\* The next iteration from `from` packs a chunk (it is not a force-split).
PacksFrom(from) ==
    /\ from < Len(sentences)
    /\ ~PackFrom(sentences, from, 0, chunkSize).long

\* C25: when a packed chunk has been emitted and the next iteration packs a
\* chunk as well, that chunk ends at a later unit than the one just
\* emitted, so it holds a unit the one before it does not hold.
PackedEndIncreases ==
    [][(/\ segPc = "outer"
        /\ segPc' = "outer"
        /\ Len(chunks') = Len(chunks) + 1
        /\ PacksFrom(startIndex'))
          => PackedEnd(startIndex') > PackedEnd(startIndex)]_vars

\* Unit i (one-based) is inside a packed chunk: some chunk is the units a..b
\* joined by single spaces, with a <= i <= b.
InPackedChunk(i) ==
    \E j \in 1..Len(chunks), a \in 1..i, b \in i..Len(sentences) :
        chunks[j] = Join(SubSeq(sentences, a, b), <<SP>>)

\* The chunks from the j-th on hold windows of the text that reach from the
\* zero-based position pos to its end without a gap; a window is in the
\* output without the white space at its ends, and not at all when it is
\* white space only.
RECURSIVE WindowsCover(_, _, _)
WindowsCover(text, pos, j) ==
    \/ pos >= Len(text)
    \/ IsSpace(text[pos + 1]) /\ WindowsCover(text, pos + 1, j)
    \/ /\ j <= Len(chunks)
       /\ \E s \in 0..pos, e \in (pos + 1)..Len(text) :
            /\ e - s <= chunkSize
            /\ Trim(Slice(text, s, e)) = chunks[j]
            /\ WindowsCover(text, e, j + 1)

\* Unit i is in the output: in a packed chunk, or cut into windows.
UnitCovered(i) ==
    IF Len(sentences[i]) <= chunkSize THEN InPackedChunk(i)
    ELSE \E j \in 1..Len(chunks) : WindowsCover(sentences[i], 0, j)

\* s is the start of t.
IsPrefix(s, t) == Len(s) <= Len(t) /\ SubSeq(t, 1, Len(s)) = s

ActiveProvider == loadConfig(configFile).modelProvider

ActiveModel == loadConfig(configFile).model

ModelValid(config) ==
    IF config.modelProvider \in DOMAIN config.customModels
    THEN config.model = config.customModels[config.modelProvider]
    ELSE \/ config.model \in PROVIDERS[config.modelProvider].models
         \/ config.model = PROVIDERS[config.modelProvider].defaultModel

\* C28: after any sequence of configuration commands the active model is
\* valid for the active provider, in the saved file and as loaded from it.
ActiveModelValid ==
    /\ configFile.exists => ModelValid(configFile.config)
    /\ ModelValid(loadConfig(configFile))

\* openai with a custom model recorded (model --custom) while ollama has one
\* recorded too, and openai with a listed model that is not its default.
ActiveModelValidWitness ==
    /\ ActiveProvider = "openai"
    /\ DOMAIN loadConfig(configFile).customModels = {"ollama", "openai"}
    /\ ActiveModel = "llama3"

ListedModelWitness ==
    /\ ActiveProvider = "openai"
    /\ "openai" \notin DOMAIN loadConfig(configFile).customModels
    /\ ActiveModel = "gpt-4o"

\* ------------------------------------------------------------------------
\* Properties of ties in a search
\* ------------------------------------------------------------------------
\* Two similarities are exactly equal.
Tied(x, y) ==
    IF IsFinite(x) /\ IsFinite(y) THEN ~ScoreLess(x, y) /\ ~ScoreLess(y, x)
    ELSE x.k = "inf" /\ y.k = "inf" /\ x.d = y.d

\* Record r is on an earlier line of the log than record s.
EarlierInLog(r, s) ==
    LET kept == AllAsReturned(AcceptedLines)
    IN  \E a \in 1..Len(kept) : \E b \in 1..Len(kept) :
            a < b /\ kept[a] = r /\ kept[b] = s

\* C29: returned records of exactly equal similarity are in log order, and a
\* record left out that ties with a returned one is on a later line than
\* it; with the ranking by similarity this fixes the result from the log,
\* the query vector and k.
TiesInLogOrder ==
    (lastSearch.done /\ ~lastSearch.threw) =>
        LET result == lastSearch.result
            kept == AllAsReturned(AcceptedLines)
        IN  /\ \A i \in 1..Len(result) : \A j \in 1..Len(result) :
                  (i < j /\ Tied(Similarity(result[i].embedding),
                                 Similarity(result[j].embedding)))
                     => EarlierInLog(result[i], result[j])
            /\ \A c \in 1..Len(kept) : \A j \in 1..Len(result) :
                  (/\ kept[c] \notin Range(result)
                   /\ Tied(Similarity(kept[c].embedding),
                           Similarity(result[j].embedding)))
                     => EarlierInLog(result[j], kept[c])

\* A search that returned two records with different embeddings and the
\* same finite similarity.
TiesInLogOrderWitness ==
    /\ lastSearch.done
    /\ Len(lastSearch.result) = 2
    /\ lastSearch.result[1].embedding # lastSearch.result[2].embedding
    /\ IsFinite(Similarity(lastSearch.result[1].embedding))
    /\ Similarity(lastSearch.result[1].embedding).d > 0
    /\ Tied(Similarity(lastSearch.result[1].embedding),
            Similarity(lastSearch.result[2].embedding))

\* A search with k = 1 that left out a record that ties with the returned
\* one.
TieAtCutWitness ==
    /\ lastSearch.done
    /\ lastSearch.k = 1
    /\ Len(lastSearch.result) = 1
    /\ \E c \in 1..Len(AcceptedLines) :
          /\ AsReturned(AcceptedLines[c]) # lastSearch.result[1]
          /\ IsFinite(Similarity(lastSearch.result[1].embedding))
          /\ Similarity(lastSearch.result[1].embedding).d > 0
          /\ Tied(Similarity(AcceptedLines[c][1].embedding),
                  Similarity(lastSearch.result[1].embedding))

====
